---- MODULE Spec2Model ----
(***************************************************************************)
(* Model of the test-execution telemetry pipeline of weem:                 *)
(*   TestMetricsCollector  (reporting/metrics/test-metrics.ts)             *)
(*   FailureAnalyzer       (reporting/analysis/failure-analyzer.ts)        *)
(*   EnhancedReporter      (reporting/reporters/enhanced-reporter.ts)      *)
(*                                                                         *)
(* Strings the code inspects (error types and messages) are sequences of   *)
(* one-character strings, so that concatenation, includes(), toLowerCase() *)
(* and the regular expressions are computed character by character.        *)
(* Numbers produced by a division are exact rationals [num, den] in lowest *)
(* terms; binary floating-point rounding is outside the model.             *)
(* An optional value (x?: T) is <<>> when undefined and <<v>> when set.    *)
(***************************************************************************)
EXTENDS Integers, Sequences, FiniteSets, TLC

VARIABLES
  metrics,       \* TestMetricsCollector.metrics
  testResults,   \* TestMetricsCollector.testResults
  failures,      \* TestMetricsCollector.failures (Map, in insertion order)
  now,           \* the wall clock read by new Date()
  ret,           \* the last call made and what it returned
  failedTests,   \* FailureAnalyzer.failedTests
  reporter,      \* EnhancedReporter: options, lifecycle position, console/log
  disk,          \* the file system under reportDir
  held,          \* the getMetrics() result a caller of the collector keeps
  retrying       \* RetryHelper: the retry call in flight, its timer and its race

vars == <<metrics, testResults, failures, now, ret, failedTests, reporter, disk, held, retrying>>

----------------------------------------------------------------------------
(* Bounds of the model *)

MaxTests == 3
MaxClock == 1
MaxFailed == 4
MaxTopTests == 12

----------------------------------------------------------------------------
(* Generic helpers *)

Undefined == <<>>

Some(x) == <<x>>

Min(a, b) == IF a < b THEN a ELSE b

RECURSIVE GCD(_, _)
GCD(a, b) == IF b = 0 THEN a ELSE GCD(b, a % b)

\* n / d for integers n >= 0, d > 0, as an exact rational in lowest terms
Rat(n, d) == [num |-> n \div GCD(n, d), den |-> d \div GCD(n, d)]

\* s.includes(sub) on character sequences
includes(s, sub) ==
  \E i \in 0..(Len(s) - Len(sub)) : SubSeq(s, i + 1, i + Len(sub)) = sub

UpperChars == <<"A","B","C","D","E","F","G","H","I","J","K","L","M",
                "N","O","P","Q","R","S","T","U","V","W","X","Y","Z">>

LowerChars == <<"a","b","c","d","e","f","g","h","i","j","k","l","m",
                "n","o","p","q","r","s","t","u","v","w","x","y","z">>

toLowerChar(c) ==
  IF \E i \in 1..26 : UpperChars[i] = c
  THEN LowerChars[CHOOSE i \in 1..26 : UpperChars[i] = c]
  ELSE c

toLowerCase(s) == [i \in 1..Len(s) |-> toLowerChar(s[i])]

Digits == <<"0","1","2","3","4","5","6","7","8","9">>

\* reduce(f, init) over a sequence, left to right
RECURSIVE SumDurations(_)
SumDurations(s) ==
  IF s = <<>> THEN 0 ELSE s[1].duration + SumDurations(Tail(s))

\* Array.prototype.sort((a, b) => key(b) - key(a)), where keys[i] is the key
\* of s[i]: descending by key and, as ECMAScript 2019 requires of sort,
\* stable: an element comes behind exactly the elements with a larger key
\* and the earlier ones with its key.
sortDesc(s, keys) ==
  LET rank(i) == Cardinality({j \in 1..Len(s) :
                    \/ keys[j] > keys[i]
                    \/ (keys[j] = keys[i] /\ j < i)}) + 1
  IN [p \in 1..Len(s) |-> s[CHOOSE i \in 1..Len(s) : rank(i) = p]]

\* Array.prototype.slice(0, n)
slice0(s, n) == SubSeq(s, 1, Min(n, Len(s)))

----------------------------------------------------------------------------
(* The data model (test-metrics.ts, interfaces) and the inputs of the model *)

\* TestError
TestError(type, message, stack) ==
  [type |-> type, message |-> message, stack |-> stack, location |-> Undefined]

\* TestResult
TestResult(fullName, status, duration, startTime, endTime, error, retries) ==
  [name |-> fullName, fullName |-> fullName, status |-> status,
   duration |-> duration, startTime |-> startTime, endTime |-> endTime,
   error |-> error, retries |-> retries,
   attachments |-> <<>>, tags |-> <<>>]

Statuses == {"passed", "failed", "skipped", "flaky"}

ErrTimeout == TestError(<<"T","i","m","e","o","u","t","E","r","r","o","r">>, <<"T","i","m","e","o","u","t"," ","5","0","0","0","m","s"," ","e","x","c","e","e","d","e","d">>, Undefined)

ErrTimeoutStack == TestError(<<"T","i","m","e","o","u","t","E","r","r","o","r">>, <<"T","i","m","e","o","u","t"," ","5","0","0","0","m","s"," ","e","x","c","e","e","d","e","d">>, Some("at a.spec.ts:3"))

ErrTimeoutTest == TestError(<<"E","r","r","o","r">>, <<"T","e","s","t"," ","T","i","m","e","o","u","t"," ","5","0","0","0","m","s">>, Undefined)

ErrExpect == TestError(<<"E","r","r","o","r">>, <<"e","x","p","e","c","t","(","r","e","c","e","i","v","e","d",")",".","t","o","B","e","(","1",")">>, Undefined)

ErrLocator == TestError(<<"E","r","r","o","r">>, <<"l","o","c","a","t","o","r","(","'","#","b","u","y","'",")"," ","n","o","t"," ","f","o","u","n","d">>, Undefined)

ErrNet == TestError(<<"E","r","r","o","r">>, <<"n","e","t",":",":","E","R","R","_","F","A","I","L","E","D">>, Undefined)

\* two errors whose type and message differ and whose type:message agree
ErrColonMsg == TestError(<<"E","r","r","o","r">>, <<"a",":","b">>, Undefined)

ErrColonType == TestError(<<"E","r","r","o","r",":","a">>, <<"b">>, Undefined)

\* the results offered to recordTest
TestPool ==
  { TestResult("t1", "passed", 2, 0, Some(2), Undefined, 0),
    TestResult("t2", "passed", 1, 0, Some(1), Undefined, 0),
    TestResult("t3", "failed", 3, 0, Some(3), Some(ErrTimeout), 0),
    TestResult("t4", "failed", 3, 1, Some(4), Some(ErrTimeout), 1),
    TestResult("t5", "failed", 1, 0, Undefined, Some(ErrColonMsg), 0),
    TestResult("t6", "failed", 1, 1, Some(2), Some(ErrColonType), 0),
    TestResult("t7", "failed", 2, 0, Some(2), Undefined, 1),
    TestResult("t8", "skipped", 0, 0, Some(0), Undefined, 0),
    TestResult("t9", "flaky", 2, 0, Some(2), Undefined, 1) }

----------------------------------------------------------------------------
(* TestMetricsCollector *)

\* constructor(browser = 'chromium', environment = 'dev'), and reset()
newMetrics(t, browser, environment) ==
  [total |-> 0, passed |-> 0, failed |-> 0, skipped |-> 0, flaky |-> 0,
   startTime |-> t, endTime |-> Undefined, duration |-> 0,
   averageTestDuration |-> Rat(0, 1),
   slowestTest |-> Undefined, fastestTest |-> Undefined,
   failureRate |-> Rat(0, 1), topFailures |-> <<>>,
   browser |-> browser, environment |-> environment]

\* the collector object: its three fields
Collector(m, rs, fs) == [metrics |-> m, testResults |-> rs, failures |-> fs]

newCollector(t) == Collector(newMetrics(t, "chromium", "dev"), <<>>, <<>>)

\* start()
start(c, t) == [c EXCEPT !.metrics.startTime = t]

\* countStatus with the case 'flaky' left out of the switch
countStatus_FlakyUncounted(m, status) ==
  CASE status = "passed"  -> [m EXCEPT !.passed = @ + 1]
    [] status = "failed"  -> [m EXCEPT !.failed = @ + 1]
    [] status = "skipped" -> [m EXCEPT !.skipped = @ + 1]
    [] OTHER -> m

\* the switch on result.status in recordTest
countStatus(m, status) ==
  CASE status = "passed"  -> [m EXCEPT !.passed = @ + 1]
    [] status = "failed"  -> [m EXCEPT !.failed = @ + 1]
    [] status = "skipped" -> [m EXCEPT !.skipped = @ + 1]
    [] status = "flaky"   -> [m EXCEPT !.flaky = @ + 1]
    [] OTHER -> m

\* the key of the failure index: `${type}:${message}`
failureKey(error) == error.type \o <<":">> \o error.message

\* result.endTime || new Date()
endTimeOr(result, t) ==
  IF result.endTime # Undefined THEN result.endTime[1] ELSE t

\* recordFailure without the early return: result.error?.type and
\* result.error?.message, so a result without an error is tallied under the
\* key undefined:undefined
recordFailure_ErrorlessIndexed(fs, result, t) ==
  LET error == IF result.error = Undefined
               THEN [type |-> <<"u","n","d","e","f","i","n","e","d">>, message |-> <<"u","n","d","e","f","i","n","e","d">>]
               ELSE result.error[1]
      key == failureKey(error)
      hits == {i \in 1..Len(fs) : fs[i].key = key}
  IN IF hits # {}
     THEN LET i == CHOOSE j \in hits : TRUE
          IN [fs EXCEPT ![i].val.count = @ + 1,
                        ![i].val.tests = Append(@, result.fullName),
                        ![i].val.lastOccurrence = endTimeOr(result, t)]
     ELSE Append(fs, [key |-> key,
                      val |-> [errorType |-> error.type,
                               errorMessage |-> error.message,
                               count |-> 1,
                               tests |-> <<result.fullName>>,
                               firstOccurrence |-> endTimeOr(result, t),
                               lastOccurrence |-> endTimeOr(result, t)]])

\* recordFailure(result) on the Map failures, a sequence of [key, val] in
\* insertion order
recordFailure(fs, result, t) ==
  IF result.error = Undefined THEN fs
  ELSE
    LET error == result.error[1]
        key == failureKey(error)
        hits == {i \in 1..Len(fs) : fs[i].key = key}
    IN IF hits # {}
       THEN LET i == CHOOSE j \in hits : TRUE
            IN [fs EXCEPT ![i].val.count = @ + 1,
                          ![i].val.tests = Append(@, result.fullName),
                          ![i].val.lastOccurrence = endTimeOr(result, t)]
       ELSE Append(fs, [key |-> key,
                        val |-> [errorType |-> error.type,
                                 errorMessage |-> error.message,
                                 count |-> 1,
                                 tests |-> <<result.fullName>>,
                                 firstOccurrence |-> endTimeOr(result, t),
                                 lastOccurrence |-> endTimeOr(result, t)]])

\* updatePerformanceMetrics with the average taken over the passed results
\* only
updatePerformanceMetrics_PassedOnly(m, rs, result) ==
  LET slow == IF m.slowestTest = Undefined
                 \/ result.duration > m.slowestTest[1].duration
              THEN Some(result) ELSE m.slowestTest
      fast == IF result.status = "passed"
                 /\ (m.fastestTest = Undefined
                     \/ result.duration < m.fastestTest[1].duration)
              THEN Some(result) ELSE m.fastestTest
      passed == LET has(r) == r.status = "passed" IN SelectSeq(rs, has)
  IN [m EXCEPT !.slowestTest = slow,
               !.fastestTest = fast,
               !.averageTestDuration =
                  IF passed = <<>> THEN @ ELSE Rat(SumDurations(passed), Len(passed))]

\* updatePerformanceMetrics with the skipped results left out of the average
updatePerformanceMetrics_SkippedExcluded(m, rs, result) ==
  LET slow == IF m.slowestTest = Undefined
                 \/ result.duration > m.slowestTest[1].duration
              THEN Some(result) ELSE m.slowestTest
      fast == IF result.status = "passed"
                 /\ (m.fastestTest = Undefined
                     \/ result.duration < m.fastestTest[1].duration)
              THEN Some(result) ELSE m.fastestTest
      run == LET ran(r) == r.status # "skipped" IN SelectSeq(rs, ran)
  IN [m EXCEPT !.slowestTest = slow,
               !.fastestTest = fast,
               !.averageTestDuration =
                  IF run = <<>> THEN @ ELSE Rat(SumDurations(run), Len(run))]

\* updatePerformanceMetrics comparing with >= and <=: of results that last
\* equally long the latest is kept
updatePerformanceMetrics_LatestWins(m, rs, result) ==
  LET slow == IF m.slowestTest = Undefined
                 \/ result.duration >= m.slowestTest[1].duration
              THEN Some(result) ELSE m.slowestTest
      fast == IF result.status = "passed"
                 /\ (m.fastestTest = Undefined
                     \/ result.duration <= m.fastestTest[1].duration)
              THEN Some(result) ELSE m.fastestTest
  IN [m EXCEPT !.slowestTest = slow,
               !.fastestTest = fast,
               !.averageTestDuration = Rat(SumDurations(rs), Len(rs))]

\* updatePerformanceMetrics(result); rs is testResults with result pushed
updatePerformanceMetrics(m, rs, result) ==
  LET slow == IF m.slowestTest = Undefined
                 \/ result.duration > m.slowestTest[1].duration
              THEN Some(result) ELSE m.slowestTest
      fast == IF result.status = "passed"
                 /\ (m.fastestTest = Undefined
                     \/ result.duration < m.fastestTest[1].duration)
              THEN Some(result) ELSE m.fastestTest
  IN [m EXCEPT !.slowestTest = slow,
               !.fastestTest = fast,
               !.averageTestDuration = Rat(SumDurations(rs), Len(rs))]

\* recordTest(result)
recordTest(c, result, t) ==
  LET rs == Append(c.testResults, result)
      m1 == [c.metrics EXCEPT !.total = @ + 1]
      m2 == countStatus(m1, result.status)
      fs == IF result.status = "failed"
            THEN recordFailure(c.failures, result, t) ELSE c.failures
  IN Collector(updatePerformanceMetrics(m2, rs, result), rs, fs)

\* how many failure-index entries finish() keeps: slice(0, 10)
TopFailuresLimit == 10

\* failureRateOf as a fraction, the factor 100 forgotten
failureRateOf_Fraction(m) ==
  IF m.total > 0 THEN Rat(m.failed, m.total) ELSE m.failureRate

\* (failed / total) * 100 in finish(), computed only when total > 0
failureRateOf(m) ==
  IF m.total > 0 THEN Rat(m.failed * 100, m.total) ELSE m.failureRate

\* topFailuresOf without the slice(0, 10)
topFailuresOf_Unsliced(fs) ==
  sortDesc([i \in 1..Len(fs) |-> i], [i \in 1..Len(fs) |-> fs[i].val.count])

\* Array.from(failures.values()).sort((a, b) => b.count - a.count).slice(0, 10)
\* The array holds the Map's own FailureAnalysis objects: each element is a
\* reference, the position of the entry in failures.
topFailuresOf(fs) ==
  slice0(sortDesc([i \in 1..Len(fs) |-> i], [i \in 1..Len(fs) |-> fs[i].val.count]),
         TopFailuresLimit)

\* finish()
finish(c, t) ==
  LET m1 == [c.metrics EXCEPT !.endTime = Some(t),
                              !.duration = t - c.metrics.startTime]
  IN [c EXCEPT !.metrics = [m1 EXCEPT !.failureRate = failureRateOf(m1),
                                      !.topFailures = topFailuresOf(c.failures)]]

\* the FailureAnalysis objects metrics.topFailures refers to
topFailureEntries(c) ==
  [i \in 1..Len(c.metrics.topFailures) |-> c.failures[c.metrics.topFailures[i]].val]

\* getTestsByStatus(status), getFailedTests(), getPassedTests(), ...
getTestsByStatus(c, status) ==
  LET has(r) == r.status = status IN SelectSeq(c.testResults, has)

getFailedTests(c) == getTestsByStatus(c, "failed")

\* getPassedTests()
getPassedTests(c) == getTestsByStatus(c, "passed")

\* getSkippedTests()
getSkippedTests(c) == getTestsByStatus(c, "skipped")

\* getFlakyTests without the retried results
getFlakyTests_StatusOnly(c) ==
  LET has(r) == r.status = "flaky" IN SelectSeq(c.testResults, has)

\* getFlakyTests()
getFlakyTests(c) ==
  LET has(r) == r.status = "flaky" \/ r.retries > 0 IN SelectSeq(c.testResults, has)

\* getMetrics(): { ...this.metrics }
getMetrics(c) == c.metrics

\* getTestResults(): [...this.testResults]
getTestResults(c) == c.testResults

\* getTestsByDuration(limit): a sorted copy of testResults, cut to limit
\* when limit is truthy (undefined and 0 are not)
getTestsByDuration(c, limit) ==
  LET sorted == sortDesc(c.testResults,
                         [i \in 1..Len(c.testResults) |-> c.testResults[i].duration])
  IN IF limit # Undefined /\ limit[1] # 0 THEN slice0(sorted, limit[1]) ELSE sorted

\* getPassRate with flaky results counted as passed
getPassRate_CountsFlaky(c) ==
  IF c.metrics.total = 0 THEN Rat(0, 1)
  ELSE Rat((c.metrics.passed + c.metrics.flaky) * 100, c.metrics.total)

\* getPassRate()
getPassRate(c) ==
  IF c.metrics.total = 0 THEN Rat(0, 1)
  ELSE Rat(c.metrics.passed * 100, c.metrics.total)

\* reset()
reset(c, t) ==
  Collector(newMetrics(t, c.metrics.browser, c.metrics.environment), <<>>, <<>>)

----------------------------------------------------------------------------
(* FailureAnalyzer *)

FailureCategories ==
  {"timeout", "assertion", "element-not-found", "network", "navigation",
   "authentication", "data", "unknown"}

\* the text of a category, as `${category}` interpolates it
categoryText(category) ==
  CASE category = "timeout" -> <<"t","i","m","e","o","u","t">>
    [] category = "assertion" -> <<"a","s","s","e","r","t","i","o","n">>
    [] category = "element-not-found" -> <<"e","l","e","m","e","n","t","-","n","o","t","-","f","o","u","n","d">>
    [] category = "network" -> <<"n","e","t","w","o","r","k">>
    [] category = "navigation" -> <<"n","a","v","i","g","a","t","i","o","n">>
    [] category = "authentication" -> <<"a","u","t","h","e","n","t","i","c","a","t","i","o","n">>
    [] category = "data" -> <<"d","a","t","a">>
    [] category = "unknown" -> <<"u","n","k","n","o","w","n">>

\* categorizeFailure with the checks for assertion and timeout exchanged
categorizeFailure_AssertionFirst(error) ==
  LET message == toLowerCase(error.message)
      type == toLowerCase(error.type)
  IN IF includes(message, <<"e","x","p","e","c","t">>) \/ includes(message, <<"a","s","s","e","r","t">>)
        \/ includes(type, <<"a","s","s","e","r","t","i","o","n">>)
     THEN "assertion"
     ELSE IF includes(message, <<"t","i","m","e","o","u","t">>) \/ includes(type, <<"t","i","m","e","o","u","t">>)
     THEN "timeout"
     ELSE IF includes(message, <<"l","o","c","a","t","o","r">>) \/ includes(message, <<"e","l","e","m","e","n","t">>)
             \/ includes(message, <<"s","e","l","e","c","t","o","r">>)
     THEN "element-not-found"
     ELSE IF includes(message, <<"n","e","t","w","o","r","k">>) \/ includes(message, <<"n","e","t",":",":">>)
             \/ includes(message, <<"f","e","t","c","h">>)
     THEN "network"
     ELSE IF includes(message, <<"n","a","v","i","g","a","t","i","o","n">>) \/ includes(message, <<"g","o","t","o">>)
     THEN "navigation"
     ELSE IF includes(message, <<"a","u","t","h","e","n","t","i","c","a","t","i","o","n">>) \/ includes(message, <<"l","o","g","i","n">>)
             \/ includes(message, <<"u","n","a","u","t","h","o","r","i","z","e","d">>)
     THEN "authentication"
     ELSE IF includes(message, <<"d","a","t","a">>) \/ includes(message, <<"v","a","l","i","d","a","t","i","o","n">>)
     THEN "data"
     ELSE "unknown"

\* categorizeFailure(error)
categorizeFailure(error) ==
  LET message == toLowerCase(error.message)
      type == toLowerCase(error.type)
  IN IF includes(message, <<"t","i","m","e","o","u","t">>) \/ includes(type, <<"t","i","m","e","o","u","t">>)
     THEN "timeout"
     ELSE IF includes(message, <<"e","x","p","e","c","t">>) \/ includes(message, <<"a","s","s","e","r","t">>)
             \/ includes(type, <<"a","s","s","e","r","t","i","o","n">>)
     THEN "assertion"
     ELSE IF includes(message, <<"l","o","c","a","t","o","r">>) \/ includes(message, <<"e","l","e","m","e","n","t">>)
             \/ includes(message, <<"s","e","l","e","c","t","o","r">>)
     THEN "element-not-found"
     ELSE IF includes(message, <<"n","e","t","w","o","r","k">>) \/ includes(message, <<"n","e","t",":",":">>)
             \/ includes(message, <<"f","e","t","c","h">>)
     THEN "network"
     ELSE IF includes(message, <<"n","a","v","i","g","a","t","i","o","n">>) \/ includes(message, <<"g","o","t","o">>)
     THEN "navigation"
     ELSE IF includes(message, <<"a","u","t","h","e","n","t","i","c","a","t","i","o","n">>) \/ includes(message, <<"l","o","g","i","n">>)
             \/ includes(message, <<"u","n","a","u","t","h","o","r","i","z","e","d">>)
     THEN "authentication"
     ELSE IF includes(message, <<"d","a","t","a">>) \/ includes(message, <<"v","a","l","i","d","a","t","i","o","n">>)
     THEN "data"
     ELSE "unknown"

\* the first position from i on whose character is not in C (Len(s) + 1 if
\* none): where a greedy [C]+ begun at i ends
RunEnd(s, i, C) ==
  CHOOSE j \in i..(Len(s) + 1) :
    /\ \A k \in i..(j - 1) : s[k] \in C
    /\ j = Len(s) + 1 \/ s[j] \notin C

\* the first position from i on whose character is in C (Len(s) + 1 if
\* none): where a greedy [^C]+ begun at i ends
RunEndNot(s, i, C) ==
  CHOOSE j \in i..(Len(s) + 1) :
    /\ \A k \in i..(j - 1) : s[k] \notin C
    /\ j = Len(s) + 1 \/ s[j] \in C

\* s has the text lit at position i
At(s, i, lit) == i + Len(lit) - 1 <= Len(s) /\ SubSeq(s, i, i + Len(lit) - 1) = lit

\* \d
DigitChars == {Digits[d] : d \in 1..10}

\* ['"]
QuoteChars == {"'", "\""}

\* message.match(/Timeout (\d+)ms/): <<>> for null, else <<match[1]>>.
\* \d+ takes the whole run of digits: a shorter one is followed by a digit.
matchTimeout(message) ==
  LET lit == <<"T","i","m","e","o","u","t"," ">>
      ok(i) == /\ At(message, i, lit)
               /\ LET d0 == i + Len(lit)
                      d1 == RunEnd(message, d0, DigitChars)
                  IN d1 > d0 /\ At(message, d1, <<"m","s">>)
      hits == {i \in 1..Len(message) : ok(i)}
  IN IF hits = {} THEN Undefined
     ELSE LET i == CHOOSE h \in hits : \A g \in hits : h <= g
              d0 == i + Len(lit)
          IN Some(SubSeq(message, d0, RunEnd(message, d0, DigitChars) - 1))

\* message.match(/locator\(['"]([^'"]+)['"]\)/)
matchLocator(message) ==
  LET lit == <<"l","o","c","a","t","o","r","(">>
      ok(i) == /\ At(message, i, lit)
               /\ LET q0 == i + Len(lit)
                      e1 == RunEndNot(message, q0 + 1, QuoteChars)
                  IN /\ q0 <= Len(message) /\ message[q0] \in QuoteChars
                     /\ e1 > q0 + 1
                     /\ e1 <= Len(message)
                     /\ At(message, e1 + 1, <<")">>)
      hits == {i \in 1..Len(message) : ok(i)}
  IN IF hits = {} THEN Undefined
     ELSE LET i == CHOOSE h \in hits : \A g \in hits : h <= g
              c0 == i + Len(lit) + 1
          IN Some(SubSeq(message, c0, RunEndNot(message, c0, QuoteChars) - 1))

\* message.match(/expect\(([^)]+)\)/)
matchExpect(message) ==
  LET lit == <<"e","x","p","e","c","t","(">>
      ok(i) == /\ At(message, i, lit)
               /\ LET c0 == i + Len(lit)
                      e1 == RunEndNot(message, c0, {")"})
                  IN e1 > c0 /\ e1 <= Len(message)
      hits == {i \in 1..Len(message) : ok(i)}
  IN IF hits = {} THEN Undefined
     ELSE LET i == CHOOSE h \in hits : \A g \in hits : h <= g
              c0 == i + Len(lit)
          IN Some(SubSeq(message, c0, RunEndNot(message, c0, {")"}) - 1))

\* the length the fallback pattern is cut to: substring(0, 100)
PatternLimit == 100

\* message.split('\n')[0].substring(0, 100)
firstLine(message) ==
  slice0(SubSeq(message, 1, RunEndNot(message, 1, {"\n"}) - 1), PatternLimit)

\* extractPattern with the locator rule before the timeout rule
extractPattern_LocatorFirst(error) ==
  LET message == error.message
  IN IF includes(message, <<"l","o","c","a","t","o","r">>)
     THEN (IF matchLocator(message) # Undefined
           THEN <<"L","o","c","a","t","o","r",":"," ">> \o matchLocator(message)[1]
           ELSE <<"L","o","c","a","t","o","r"," ","n","o","t"," ","f","o","u","n","d">>)
     ELSE IF includes(message, <<"T","i","m","e","o","u","t">>)
     THEN (IF matchTimeout(message) # Undefined
           THEN <<"T","i","m","e","o","u","t"," ">> \o matchTimeout(message)[1] \o <<"m","s">>
           ELSE <<"T","i","m","e","o","u","t">>)
     ELSE IF includes(message, <<"e","x","p","e","c","t">>)
     THEN (IF matchExpect(message) # Undefined
           THEN <<"A","s","s","e","r","t","i","o","n"," ","f","a","i","l","e","d",":"," ">> \o matchExpect(message)[1]
           ELSE <<"A","s","s","e","r","t","i","o","n"," ","f","a","i","l","e","d">>)
     ELSE firstLine(message)

\* extractPattern(error)
extractPattern(error) ==
  LET message == error.message
  IN IF includes(message, <<"T","i","m","e","o","u","t">>)
     THEN (IF matchTimeout(message) # Undefined
           THEN <<"T","i","m","e","o","u","t"," ">> \o matchTimeout(message)[1] \o <<"m","s">>
           ELSE <<"T","i","m","e","o","u","t">>)
     ELSE IF includes(message, <<"l","o","c","a","t","o","r">>)
     THEN (IF matchLocator(message) # Undefined
           THEN <<"L","o","c","a","t","o","r",":"," ">> \o matchLocator(message)[1]
           ELSE <<"L","o","c","a","t","o","r"," ","n","o","t"," ","f","o","u","n","d">>)
     ELSE IF includes(message, <<"e","x","p","e","c","t">>)
     THEN (IF matchExpect(message) # Undefined
           THEN <<"A","s","s","e","r","t","i","o","n"," ","f","a","i","l","e","d",":"," ">> \o matchExpect(message)[1]
           ELSE <<"A","s","s","e","r","t","i","o","n"," ","f","a","i","l","e","d">>)
     ELSE firstLine(message)

\* getPatternDescription(category, pattern)
getPatternDescription(category, pattern) ==
  CASE category = "timeout" -> "Test exceeded the maximum execution time"
    [] category = "assertion" -> "Expected condition was not met"
    [] category = "element-not-found" -> "Could not find the specified element on the page"
    [] category = "network" -> "Network request failed or timed out"
    [] category = "navigation" -> "Failed to navigate to the specified URL"
    [] category = "authentication" -> "Authentication or authorization failed"
    [] category = "data" -> "Data validation or processing failed"
    [] category = "unknown" -> "Unclassified failure"

\* calculateSeverity with timeout rated high
calculateSeverity_TimeoutHigh(category) ==
  CASE category \in {"authentication", "network", "navigation", "timeout"} -> "high"
    [] category \in {"element-not-found"} -> "medium"
    [] OTHER -> "low"

\* calculateSeverity(category)
calculateSeverity(category) ==
  CASE category \in {"authentication", "network", "navigation"} -> "high"
    [] category \in {"element-not-found", "timeout"} -> "medium"
    [] OTHER -> "low"

\* getSuggestedFix(category, pattern)
getSuggestedFix(category, pattern) ==
  CASE category = "timeout" -> "Increase timeout value or optimize test performance. Check for slow network or page loads."
    [] category = "assertion" -> "Review test assertions and ensure expected values are correct."
    [] category = "element-not-found" -> "Verify element selectors are correct and elements are visible. Consider adding explicit waits."
    [] category = "network" -> "Check network connectivity and API endpoints. Implement retry logic for flaky requests."
    [] category = "navigation" -> "Verify URLs are correct and accessible. Check for redirect issues."
    [] category = "authentication" -> "Verify authentication credentials and flow. Check for expired tokens or sessions."
    [] category = "data" -> "Validate test data format and values. Check data generators and fixtures."
    [] category = "unknown" -> "Review error stack trace and test logs for more details."

\* patternKey without the category
patternKey_PatternOnly(category, pattern) == pattern

\* the key of the Map patterns: `${category}:${pattern}`
patternKey(category, pattern) == categoryText(category) \o <<":">> \o pattern

\* the body of the forEach in analyzeFailures, on the Map patterns (a sequence
\* of [key, val] in insertion order)
analyzeOne(patterns, test) ==
  IF test.error = Undefined THEN patterns
  ELSE
    LET category == categorizeFailure(test.error[1])
        pattern == extractPattern(test.error[1])
        key == patternKey(category, pattern)
        hits == {i \in 1..Len(patterns) : patterns[i].key = key}
    IN IF hits # {}
       THEN LET i == CHOOSE j \in hits : TRUE
            IN [patterns EXCEPT ![i].val.occurrences = @ + 1,
                                ![i].val.affectedTests = Append(@, test.fullName)]
       ELSE Append(patterns,
                   [key |-> key,
                    val |-> [pattern |-> pattern,
                             description |-> getPatternDescription(category, pattern),
                             occurrences |-> 1,
                             affectedTests |-> <<test.fullName>>,
                             severity |-> calculateSeverity(category),
                             category |-> category,
                             suggestedFix |-> getSuggestedFix(category, pattern)]])

\* sortByOccurrences with the comparator reversed: a.occurrences - b.occurrences
sortByOccurrences_Ascending(values) ==
  sortDesc(values, [i \in 1..Len(values) |-> 0 - values[i].occurrences])

\* Array.from(patterns.values()).sort((a, b) => b.occurrences - a.occurrences)
sortByOccurrences(values) ==
  sortDesc(values, [i \in 1..Len(values) |-> values[i].occurrences])

\* analyzeFailures() of an analyzer constructed with tests
analyzeFailures(tests) ==
  LET patterns[i \in 0..Len(tests)] ==
        IF i = 0 THEN <<>> ELSE analyzeOne(patterns[i - 1], tests[i])
      all == patterns[Len(tests)]
  IN sortByOccurrences([i \in 1..Len(all) |-> all[i].val])

----------------------------------------------------------------------------
(* EnhancedReporter *)

\* the files generateAllReports writes under reportDir
Artifacts ==
  {"test-report.html", "test-results.json", "metrics.json",
   "failure-analysis.json", "summary.txt"}

\* a step of onEnd as it is observed: the call made, the artifact it is
\* about ("" if none) and whether it returned normally
Ev(step, artifact, ok) == [step |-> step, artifact |-> artifact, ok |-> ok]

\* getTestStatus asking for the retry before the status
getTestStatus_RetriedFirst(result) ==
  IF result.status = "skipped" THEN "skipped"
  ELSE IF result.retry > 0 THEN "flaky"
  ELSE IF result.status = "passed" THEN "passed"
  ELSE "failed"

\* getTestStatus(result)
getTestStatus(result) ==
  IF result.status = "skipped" THEN "skipped"
  ELSE IF result.status = "passed"
       THEN (IF result.retry > 0 THEN "flaky" ELSE "passed")
       ELSE "failed"

\* titlePath().join(SEP): the titles with the separator between them. SEP
\* is a single right-pointing angle quotation mark (U+203A) between two
\* spaces, written " > " here.
joinTitles(titlePath) ==
  [i \in 1..(IF titlePath = <<>> THEN 0 ELSE 2 * Len(titlePath) - 1) |->
     IF i % 2 = 1 THEN titlePath[(i + 1) \div 2] ELSE " > "]

\* x || fallback for an optional text: undefined and '' are falsy
orElse(x, fallback) == IF x = Undefined \/ x[1] = <<>> THEN fallback ELSE x[1]

\* convertToTestResult(test, result)
convertToTestResult(test, result) ==
  [name |-> test.title,
   fullName |-> joinTitles(test.titlePath),
   status |-> getTestStatus(result),
   duration |-> result.duration,
   startTime |-> result.startTime,
   endTime |-> Some(result.startTime + result.duration),
   error |-> IF result.error = Undefined THEN Undefined
             ELSE Some([message |-> orElse(result.error[1].message, <<"U","n","k","n","o","w","n"," ","e","r","r","o","r">>),
                        stack |-> result.error[1].stack,
                        type |-> orElse(result.error[1].name, <<"E","r","r","o","r">>),
                        location |-> Undefined]),
   retries |-> result.retry,
   attachments |-> <<>>,
   tags |-> test.tags]

\* onTestEnd(test, result), on the reporter's collector
onTestEnd(c, test, result, t) == recordTest(c, convertToTestResult(test, result), t)

\* ensureReportDirectory() on the file system d; mkdirFails says whether
\* mkdirSync throws when it is called
ensureReportDirectory(d, mkdirFails) ==
  IF d.dirExists THEN [disk |-> d, thrown |-> FALSE]
  ELSE IF mkdirFails THEN [disk |-> d, thrown |-> TRUE]
  ELSE [disk |-> [d EXCEPT !.dirExists = TRUE], thrown |-> FALSE]

\* writeFileSafe(filePath, content, fileName), and the body of
\* HTMLReportGenerator.generateReport: create the directory if it is missing,
\* write the file, rethrow whatever either throws. io.failing holds the
\* files whose writeFileSync throws.
writeFileSafe(d, artifact, content, io) ==
  LET dir == ensureReportDirectory(d, io.mkdirFails)
  IN IF dir.thrown \/ artifact \in io.failing
     THEN [disk |-> dir.disk, thrown |-> TRUE]
     ELSE [disk |-> [dir.disk EXCEPT !.files =
                       [a \in (DOMAIN @) \cup {artifact} |->
                          IF a = artifact THEN content ELSE @[a]]],
           thrown |-> FALSE]

\* The run of onEnd is a record st: the collector, what onEnd holds in its
\* locals (snapshot is the copy getMetrics() returned, results, failedTests,
\* failurePatterns), the file system, the steps taken so far, and thrown,
\* which tells whether an exception is propagating.

\* the outcome w of a write recorded in the run
written(st, artifact, w) ==
  [st EXCEPT !.disk = w.disk,
             !.log = Append(@, Ev("write", artifact, ~w.thrown)),
             !.thrown = w.thrown]

\* one call of writeFileSafe or generateReport in a try block; it is not
\* reached when an earlier statement of the block has thrown
attemptWrite(st, artifact, content, io) ==
  IF st.thrown THEN st
  ELSE written(st, artifact, writeFileSafe(st.disk, artifact, content, io))

\* catch (error) { logger.error(...); console.error(...) }
caught(st) == [st EXCEPT !.thrown = FALSE]

\* the metrics as JSON.stringify and the HTML generator read them: the
\* entries of topFailures are the objects of the failure index
metricsContent(c, m) ==
  [m EXCEPT !.topFailures =
     [i \in 1..Len(m.topFailures) |-> c.failures[m.topFailures[i]].val]]

\* the number NaN, and Infinity: the quotients with divisor 0
NaN == [num |-> 0, den |-> 0]

Infinity == [num |-> 1, den |-> 0]

\* n / d on numbers n >= 0 and d >= 0
divide(n, d) ==
  IF d # 0 THEN Rat(n, d) ELSE IF n = 0 THEN NaN ELSE Infinity

\* x * 100
times100(x) == IF x.den = 0 THEN x ELSE Rat(x.num * 100, x.den)

\* the decimal digits of a natural number
RECURSIVE decimal(_)
decimal(n) ==
  IF n < 10 THEN <<Digits[n + 1]>> ELSE decimal(n \div 10) \o <<Digits[(n % 10) + 1]>>

\* x.toFixed(1) for x >= 0: the nearest number of tenths, the larger of two
\* equally near, written with one decimal; NaN and Infinity by their names
toFixed1(x) ==
  IF x = NaN THEN <<"N","a","N">>
  ELSE IF x.den = 0 THEN <<"I","n","f","i","n","i","t","y">>
  ELSE LET tenths == (20 * x.num + x.den) \div (2 * x.den)
       IN decimal(tenths \div 10) \o <<".">> \o decimal(tenths % 10)

\* the number a run of decimal digits writes
RECURSIVE digitsValue(_)
digitsValue(s) ==
  IF s = <<>> THEN 0
  ELSE 10 * digitsValue(SubSeq(s, 1, Len(s) - 1))
         + (CHOOSE d \in 0..9 : Digits[d + 1] = s[Len(s)])

\* parseFloat(text): the longest decimal literal text begins with, digits
\* and an optional fraction, or Infinity; NaN if there is none
parseFloat(text) ==
  LET i1 == RunEnd(text, 1, DigitChars)
      f0 == i1 + 1
      f1 == IF i1 <= Len(text) /\ text[i1] = "." THEN RunEnd(text, f0, DigitChars) ELSE f0
      whole == SubSeq(text, 1, i1 - 1)
      fraction == SubSeq(text, f0, f1 - 1)
  IN IF At(text, 1, <<"I","n","f","i","n","i","t","y">>) THEN Infinity
     ELSE IF whole = <<>> /\ fraction = <<>> THEN NaN
     ELSE Rat(digitsValue(whole \o fraction), 10 ^ Len(fraction))

\* x >= k for a number x and an integer k: false when x is NaN
atLeast(x, k) == x # NaN /\ x.num >= k * x.den

\* buildHeader taking the class from the pass rate before it is rounded
buildHeader_Unrounded(m) ==
  LET rate == times100(divide(m.passed, m.total))
  IN [passRate |-> toFixed1(rate),
      statusClass |-> IF atLeast(rate, 80) THEN "success"
                      ELSE IF atLeast(rate, 50) THEN "warning"
                      ELSE "error"]

\* buildHeader(metrics): the pass rate shown and the class of its badge
buildHeader(m) ==
  LET passRate == toFixed1(times100(divide(m.passed, m.total)))
  IN [passRate |-> passRate,
      statusClass |-> IF atLeast(parseFloat(passRate), 80) THEN "success"
                      ELSE IF atLeast(parseFloat(passRate), 50) THEN "warning"
                      ELSE "error"]

\* x.toFixed(2) for a number x >= 0
toFixed2(x) ==
  LET hundredths == (200 * x.num + x.den) \div (2 * x.den)
  IN decimal(hundredths \div 100) \o <<".">>
       \o decimal((hundredths % 100) \div 10) \o decimal(hundredths % 10)

\* the number of results the duration chart is cut to
ChartLimit == 10

\* getScripts: durationData,
\* testResults.slice(0, 10).sort((a, b) => b.duration - a.duration).map(...)
durationData(testResults_) ==
  LET first == slice0(testResults_, ChartLimit)
      sorted == sortDesc(first, [i \in 1..Len(first) |-> first[i].duration])
  IN [i \in 1..Len(sorted) |->
        [name |-> sorted[i].name,
         duration |-> toFixed2(Rat(sorted[i].duration, 1000))]]

\* text.replace(/ch/g, by)
RECURSIVE replaceAll(_, _, _)
replaceAll(text, ch, by) ==
  IF text = <<>> THEN <<>>
  ELSE (IF Head(text) = ch THEN by ELSE <<Head(text)>>) \o replaceAll(Tail(text), ch, by)

\* escapeHTML(text): the five replacements one after the other, and the
\* text itself if the result is empty
escapeHTML(text) ==
  LET amp == replaceAll(text, "&", <<"&","a","m","p",";">>)
      lt == replaceAll(amp, "<", <<"&","l","t",";">>)
      gt == replaceAll(lt, ">", <<"&","g","t",";">>)
      quot == replaceAll(gt, "\"", <<"&","q","u","o","t",";">>)
      apos == replaceAll(quot, "'", <<"&","#","0","3","9",";">>)
  IN IF apos = <<>> THEN text ELSE apos

\* JSON.stringify(text) of a string: in double quotes, with the double
\* quote, the backslash and the line break escaped by a backslash
stringify(text) ==
  LET body[i \in 0..Len(text)] ==
        IF i = 0 THEN <<>>
        ELSE body[i - 1] \o (CASE text[i] = "\"" -> <<"\\", "\"">>
                               [] text[i] = "\\" -> <<"\\", "\\">>
                               [] text[i] = "\n" -> <<"\\", "n">>
                               [] OTHER -> <<text[i]>>)
  IN <<"\"">> \o body[Len(text)] \o <<"\"">>

\* a text of the run placed in the document: where, the text, and the
\* characters written for it
Placed(site, source, placed) == [site |-> site, source |-> source, placed |-> placed]

\* buildHTML(metrics, testResults, failurePatterns): the texts of the run
\* in the order in which the document holds them. The texts of
\* getSuggestedFix hold none of the five characters, escapeHTML returns them
\* as they are.
buildHTML(m, rs, patterns) ==
  LET rows[i \in 0..Len(rs)] ==
        IF i = 0 THEN <<>>
        ELSE rows[i - 1]
               \o <<Placed("fullName", rs[i].fullName, escapeHTML(rs[i].fullName))>>
               \o (IF rs[i].error = Undefined THEN <<>>
                   ELSE <<Placed("error.message", rs[i].error[1].message,
                                 escapeHTML(rs[i].error[1].message))>>)
      top == slice0(patterns, 10)
      analysis[i \in 0..Len(top)] ==
        IF i = 0 THEN <<>>
        ELSE analysis[i - 1]
               \o <<Placed("pattern", top[i].pattern, escapeHTML(top[i].pattern)),
                    Placed("suggestedFix", top[i].suggestedFix, top[i].suggestedFix)>>
      data == durationData(rs)
  IN <<Placed("environment", m.environment, m.environment),
       Placed("browser", m.browser, m.browser)>>
     \o rows[Len(rs)]
     \o analysis[Len(top)]
     \o [i \in 1..Len(data) |-> Placed("chart label", data[i].name, stringify(data[i].name))]

\* the try block "Generate HTML report"
htmlBlock(st, opts, io) ==
  IF st.thrown \/ ~opts.outputHTML THEN st
  ELSE caught(attemptWrite(st, "test-report.html",
                [header |-> buildHeader(st.snapshot),
                 metrics |-> metricsContent(st.collector, st.snapshot),
                 results |-> st.results,
                 failurePatterns |-> st.failurePatterns], io))

\* metricsCollector.toJSON() to test-results.json
writeResultsJSON(st, io) ==
  attemptWrite(st, "test-results.json",
    [metrics |-> metricsContent(st.collector, st.collector.metrics),
     results |-> st.collector.testResults], io)

\* JSON.stringify(metrics) to metrics.json
writeMetricsJSON(st, io) ==
  attemptWrite(st, "metrics.json", metricsContent(st.collector, st.snapshot), io)

\* analyzer.toJSON() to failure-analysis.json
writeAnalysisJSON(st, io) ==
  attemptWrite(st, "failure-analysis.json",
    [totalFailures |-> Len(st.failedTests), patterns |-> st.failurePatterns], io)

\* the try block "Generate JSON reports": three writeFileSafe calls in one
\* try, so the first that throws ends the block
jsonBlock(st, opts, io) ==
  IF st.thrown \/ ~opts.outputJSON THEN st
  ELSE caught(writeAnalysisJSON(writeMetricsJSON(writeResultsJSON(st, io), io), io))

\* the try block "Generate summary text"
summaryBlock(st, io) ==
  IF st.thrown THEN st
  ELSE caught(attemptWrite(st, "summary.txt",
                [summary |-> metricsContent(st.collector, st.collector.metrics),
                 analysis |-> st.snapshot.failed > 0], io))

\* the outcome e of ensureReportDirectory() recorded in the run
ensured(st, e) ==
  [st EXCEPT !.disk = e.disk,
             !.log = Append(@, Ev("ensureReportDirectory", "", ~e.thrown)),
             !.thrown = e.thrown]

\* generateAllReports(metrics, testResults, failurePatterns, analyzer)
generateAllReports(st, opts, io) ==
  summaryBlock(
    jsonBlock(
      htmlBlock(ensured(st, ensureReportDirectory(st.disk, io.mkdirFails)), opts, io),
      opts, io),
    io)

\* lines 98 to 107 of onEnd on the collector that finish() has sealed: the
\* accessors, the analyzer, the printed summary; log holds the steps before
analyzed(sealed, d, log) ==
  [collector |-> sealed,
   snapshot |-> getMetrics(sealed),
   results |-> getTestResults(sealed),
   failedTests |-> getFailedTests(sealed),
   failurePatterns |-> analyzeFailures(getFailedTests(sealed)),
   disk |-> d,
   log |-> log \o <<Ev("newFailureAnalyzer", "", TRUE), Ev("analyzeFailures", "", TRUE),
                    Ev("printEnhancedSummary", "", TRUE)>>,
   thrown |-> FALSE]

\* sealAndAnalyze without the call of finish()
sealAndAnalyze_Unsealed(c, d, t) == analyzed(c, d, <<>>)

\* the statements of onEnd before generateAllReports
sealAndAnalyze(c, d, t) == analyzed(finish(c, t), d, <<Ev("finish", "", TRUE)>>)

\* printReportLocations() if generateAllReports returned, and how the
\* promise of onEnd settles
settled(st) ==
  [collector |-> st.collector,
   failedTests |-> st.failedTests,
   disk |-> st.disk,
   log |-> IF st.thrown THEN st.log
           ELSE Append(st.log, Ev("printReportLocations", "", TRUE)),
   outcome |-> IF st.thrown THEN "rejected" ELSE "fulfilled"]

\* onEnd(result): the collector, the analyzer's tests, the file system and
\* the steps taken, and whether the promise is fulfilled or rejected
onEnd(c, opts, d, t, io) ==
  settled(generateAllReports(sealAndAnalyze(c, d, t), opts, io))

----------------------------------------------------------------------------
(* Specification Spec: one TestMetricsCollector driven by any sequence of   *)
(* start, recordTest, finish, reset and getPassRate calls.                  *)

\* the collector held in the variables
self == Collector(metrics, testResults, failures)

\* c becomes the collector held in the variables
Becomes(c) ==
  /\ metrics' = c.metrics
  /\ testResults' = c.testResults
  /\ failures' = c.failures

Called(op, val) == ret' = [op |-> op, val |-> val]

InitCollector ==
  /\ now = 0
  /\ metrics = newCollector(0).metrics
  /\ testResults = newCollector(0).testResults
  /\ failures = newCollector(0).failures
  /\ ret = [op |-> "new", val |-> Undefined]

Init ==
  /\ InitCollector
  /\ failedTests = <<>>
  /\ reporter = Undefined
  /\ disk = Undefined
  /\ held = Undefined
  /\ retrying = Undefined

\* time passes
Tick ==
  /\ now < MaxClock
  /\ now' = now + 1
  /\ UNCHANGED <<metrics, testResults, failures, ret, failedTests, reporter, disk, held, retrying>>

Start ==
  /\ Becomes(start(self, now))
  /\ Called("start", Undefined)
  /\ UNCHANGED <<now, failedTests, reporter, disk, held, retrying>>

RecordTest ==
  /\ Len(testResults) < MaxTests
  /\ \E result \in TestPool : Becomes(recordTest(self, result, now))
  /\ Called("recordTest", Undefined)
  /\ UNCHANGED <<now, failedTests, reporter, disk, held, retrying>>

Finish ==
  /\ Becomes(finish(self, now))
  /\ Called("finish", Undefined)
  /\ UNCHANGED <<now, failedTests, reporter, disk, held, retrying>>

Reset ==
  /\ Becomes(reset(self, now))
  /\ Called("reset", Undefined)
  /\ UNCHANGED <<now, failedTests, reporter, disk, held, retrying>>

GetPassRate ==
  /\ Called("getPassRate", Some(getPassRate(self)))
  /\ UNCHANGED <<metrics, testResults, failures, now, failedTests, reporter, disk, held, retrying>>

Next ==
  \/ Tick
  \/ Start
  \/ RecordTest
  \/ Finish
  \/ Reset
  \/ GetPassRate

Spec == Init /\ [][Next]_vars

----------------------------------------------------------------------------
(* Properties of the collector *)

\* the recorded results with status failed that carry an error
FailedWithError == {k \in 1..Len(testResults) :
                      /\ testResults[k].status = "failed"
                      /\ testResults[k].error # Undefined}

ErrorOf(k) == testResults[k].error[1]

\* the elements of a sequence at the positions in K, in order
Pick(s, K) == [j \in 1..Cardinality(K) |->
                s[CHOOSE i \in K : Cardinality({h \in K : h <= i}) = j]]

\* C1: in every reachable state of the collector
\* total == passed + failed + skipped + flaky.
C1_CountersSum ==
  metrics.total = metrics.passed + metrics.failed + metrics.skipped + metrics.flaky

C1_Witness ==
  /\ ret.op = "recordTest"
  /\ metrics.total = MaxTests
  /\ metrics.passed > 0 /\ metrics.failed > 0 /\ metrics.flaky > 0

\* C5 as stated: the failure index has exactly one entry per (type, message)
\* pair occurring among the failed results that carry an error, and the
\* entry's count is the number of failed results with exactly that type and
\* that message.
C5_SameEntryIffSameTypeAndMessage ==
  /\ \A i \in 1..Len(failures) :
       failures[i].val.count =
         Cardinality({k \in FailedWithError :
                        /\ ErrorOf(k).type = failures[i].val.errorType
                        /\ ErrorOf(k).message = failures[i].val.errorMessage})
  /\ \A k \in FailedWithError :
       Cardinality({i \in 1..Len(failures) :
                      /\ failures[i].val.errorType = ErrorOf(k).type
                      /\ failures[i].val.errorMessage = ErrorOf(k).message}) = 1

\* the text type:message of an error
TypeColonMessage(e) == e.type \o <<":">> \o e.message

\* the failed results tallied by the text type:message of entry i
TalliedBy(i) ==
  {k \in FailedWithError :
     TypeColonMessage(ErrorOf(k))
       = failures[i].val.errorType \o <<":">> \o failures[i].val.errorMessage}

\* What recordFailure does instead (C5): two failed results carrying an error
\* are tallied in the same entry if and only if the texts type:message of
\* their errors are equal (so always when type and message are equal, and
\* only then as long as no recorded type contains a colon); an entry's count
\* is the number of failed results with its text, its tests are their
\* fullNames in recording order, and its errorType/errorMessage are those of
\* the first of them.
FailureIndexGroupsByKeyText ==
  /\ \A i \in 1..Len(failures) :
       /\ TalliedBy(i) # {}
       /\ failures[i].val.count = Cardinality(TalliedBy(i))
       /\ failures[i].val.tests =
            Pick([k \in 1..Len(testResults) |-> testResults[k].fullName], TalliedBy(i))
       /\ LET first == CHOOSE k \in TalliedBy(i) : \A h \in TalliedBy(i) : k <= h
          IN /\ failures[i].val.errorType = ErrorOf(first).type
             /\ failures[i].val.errorMessage = ErrorOf(first).message
  /\ \A k \in FailedWithError :
       Cardinality({i \in 1..Len(failures) : k \in TalliedBy(i)}) = 1
  /\ (\A k \in FailedWithError : ~includes(ErrorOf(k).type, <<":">>))
       => C5_SameEntryIffSameTypeAndMessage

\* the number of recorded results with a status
CountStatus(status) ==
  Cardinality({k \in 1..Len(testResults) : testResults[k].status = status})

\* C9: immediately after finish(), failureRate is failed/total*100 when
\* total > 0 and 0 when total == 0, and with no recorded results
\* topFailures is empty.
C9_FailureRateAfterFinish ==
  ret.op = "finish" =>
    IF Len(testResults) > 0
    THEN metrics.failureRate = Rat(CountStatus("failed") * 100, Len(testResults))
    ELSE /\ metrics.failureRate = Rat(0, 1)
         /\ metrics.topFailures = <<>>

C9_Witness ==
  /\ ret.op = "finish"
  /\ metrics.total = 3
  /\ metrics.failed = 1
  /\ metrics.failureRate = [num |-> 100, den |-> 3]

\* C10: getPassRate() returns 0 when total == 0 and passed/total*100
\* otherwise, where only results with status passed count as passed.
C10_PassRate ==
  ret.op = "getPassRate" =>
    ret.val[1] = IF Len(testResults) = 0 THEN Rat(0, 1)
                 ELSE Rat(CountStatus("passed") * 100, Len(testResults))

C10_Witness ==
  /\ ret.op = "getPassRate"
  /\ metrics.flaky > 0 /\ metrics.failed > 0
  /\ ret.val[1] = [num |-> 100, den |-> 3]

\* C19: a finish() that follows a finish() with no other call of the
\* collector in between leaves the counts, failureRate, topFailures,
\* endTime and duration as the first finish() set them.
C19_SecondFinishChangesNothing ==
  [][(ret.op = "finish" /\ ret'.op = "finish" /\ now' = now) =>
       /\ metrics'.total = metrics.total
       /\ metrics'.passed = metrics.passed
       /\ metrics'.failed = metrics.failed
       /\ metrics'.skipped = metrics.skipped
       /\ metrics'.flaky = metrics.flaky
       /\ metrics'.failureRate = metrics.failureRate
       /\ metrics'.topFailures = metrics.topFailures
       /\ failures' = failures
       /\ metrics'.endTime = metrics.endTime
       /\ metrics'.duration = metrics.duration]_vars

----------------------------------------------------------------------------
(* Specification SpecTop: runs long enough to fill the failure index with   *)
(* more entries than finish() keeps. Every recorded result is failed and    *)
(* carries an error; errors first occur in the order of TopError and a      *)
(* repeated error is the newest one.                                        *)

MaxTopErrors == 12

\* the n-th error: type Error, message e<n> in decimal
TopError(n) ==
  TestError(<<"E","r","r","o","r">>,
            <<"e">> \o (IF n >= 10 THEN <<Digits[(n \div 10) + 1]>> ELSE <<>>)
                    \o <<Digits[(n % 10) + 1]>>,
            Undefined)

RecordTopTest ==
  /\ Len(testResults) < MaxTopTests
  /\ \E n \in {Len(failures), Len(failures) + 1} \cap (1..MaxTopErrors) :
       Becomes(recordTest(self,
                 TestResult("t", "failed", 1, now, Some(now + 1), Some(TopError(n)), 0),
                 now))
  /\ Called("recordTest", Undefined)
  /\ UNCHANGED <<now, failedTests, reporter, disk, held, retrying>>

NextTop ==
  \/ RecordTopTest
  \/ Finish

SpecTop == Init /\ [][NextTop]_vars

\* C8: immediately after finish(), topFailures holds at most 10 entries of
\* the failure index, each once, sorted by count in non-increasing order
\* with ties in first-recorded order, and no entry left out has a larger
\* count than an included one.
C8_TopFailuresAfterFinish ==
  ret.op = "finish" =>
    LET top == metrics.topFailures
        count(r) == failures[r].val.count
    IN /\ Len(top) <= 10
       /\ \A p \in 1..Len(top) : top[p] \in 1..Len(failures)
       /\ \A p, q \in 1..Len(top) :
            p < q => \/ count(top[p]) > count(top[q])
                     \/ (count(top[p]) = count(top[q]) /\ top[p] < top[q])
       /\ \A r \in 1..Len(failures) :
            (\A p \in 1..Len(top) : top[p] # r)
              => \A p \in 1..Len(top) : count(r) <= count(top[p])

\* finish() with more than 10 entries, of which a later one has the largest
\* count and two kept ones have equal counts
C8_Witness ==
  /\ ret.op = "finish"
  /\ Len(failures) > 10
  /\ Len(metrics.topFailures) = 10
  /\ metrics.topFailures[1] = 11
  /\ failures[metrics.topFailures[2]].val.count
       = failures[metrics.topFailures[3]].val.count

----------------------------------------------------------------------------
(* Specification SpecAnalyzer: a FailureAnalyzer constructed with any list  *)
(* of up to MaxFailed results, then analyzeFailures().                      *)

\* same pattern as ErrColonMsg, another category (by its type)
ErrTimeoutType == TestError(<<"T","i","m","e","o","u","t","E","r","r","o","r">>, <<"a",":","b">>, Undefined)

\* the results offered to the constructor of the analyzer
FailPool ==
  { TestResult("t3", "failed", 3, 0, Some(3), Some(ErrTimeout), 0),
    TestResult("t4", "failed", 3, 1, Some(4), Some(ErrTimeoutStack), 1),
    TestResult("t5", "failed", 1, 0, Undefined, Some(ErrColonMsg), 0),
    TestResult("t7", "failed", 2, 0, Some(2), Undefined, 1),
    TestResult("t10", "failed", 1, 0, Some(1), Some(ErrTimeoutTest), 0),
    TestResult("t11", "failed", 1, 0, Some(1), Some(ErrExpect), 0),
    TestResult("t12", "failed", 2, 0, Some(2), Some(ErrLocator), 0),
    TestResult("t13", "failed", 2, 0, Some(2), Some(ErrNet), 0),
    TestResult("t14", "failed", 2, 0, Some(2), Some(ErrTimeoutType), 0) }

\* the sequences over S of length at most n
SeqUpTo(S, n) == UNION {[1..m -> S] : m \in 0..n}

\* new FailureAnalyzer(tests)
NewFailureAnalyzer ==
  /\ ret.op = "new"
  /\ \E tests \in SeqUpTo(FailPool, MaxFailed) : failedTests' = tests
  /\ Called("newFailureAnalyzer", Undefined)
  /\ UNCHANGED <<metrics, testResults, failures, now, reporter, disk, held, retrying>>

AnalyzeFailures ==
  /\ ret.op \in {"newFailureAnalyzer", "analyzeFailures"}
  /\ Called("analyzeFailures", Some(analyzeFailures(failedTests)))
  /\ UNCHANGED <<metrics, testResults, failures, now, failedTests, reporter, disk, held, retrying>>

NextAnalyzer ==
  \/ NewFailureAnalyzer
  \/ AnalyzeFailures

SpecAnalyzer == Init /\ [][NextAnalyzer]_vars

\* the tests of the analyzer that have an error
Analyzed == {k \in 1..Len(failedTests) : failedTests[k].error # Undefined}

\* the category and the pattern of each test that has an error
CategoryAndPattern ==
  [k \in Analyzed |-> <<categorizeFailure(failedTests[k].error[1]),
                        extractPattern(failedTests[k].error[1])>>]

\* the tests whose category and pattern are those of the FailurePattern p
Matching(keys, p) == {k \in DOMAIN keys : keys[k] = <<p.category, p.pattern>>}

RECURSIVE SumOccurrences(_)
SumOccurrences(ps) ==
  IF ps = <<>> THEN 0 ELSE ps[1].occurrences + SumOccurrences(Tail(ps))

\* C6: analyzeFailures() returns exactly one FailurePattern per distinct
\* (category, pattern) pair among the tests that have an error; for each,
\* occurrences == affectedTests.length == the number of such tests,
\* affectedTests lists their fullNames in input order, and the occurrences
\* sum to the number of failed tests that have an error.
C6_OnePatternPerCategoryAndPattern ==
  ret.op = "analyzeFailures" =>
    LET ps == ret.val[1]
        keys == CategoryAndPattern
    IN /\ \A k \in Analyzed :
            Cardinality({i \in 1..Len(ps) : k \in Matching(keys, ps[i])}) = 1
       /\ \A i \in 1..Len(ps) :
            LET group == Matching(keys, ps[i])
            IN /\ group # {}
               /\ ps[i].occurrences = Cardinality(group)
               /\ Len(ps[i].affectedTests) = Cardinality(group)
               /\ ps[i].affectedTests =
                    Pick([k \in 1..Len(failedTests) |-> failedTests[k].fullName], group)
       /\ SumOccurrences(ps) = Cardinality(Analyzed)

\* two tests with different messages share one pattern, and two patterns
\* have the same pattern text in different categories
C6_Witness ==
  /\ ret.op = "analyzeFailures"
  /\ \E i, j \in 1..Len(ret.val[1]) :
       /\ ret.val[1][i].pattern = ret.val[1][j].pattern
       /\ ret.val[1][i].category # ret.val[1][j].category
  /\ \E i \in 1..Len(ret.val[1]) :
       /\ ret.val[1][i].occurrences = 2
       /\ \E k, h \in Matching(CategoryAndPattern, ret.val[1][i]) :
            failedTests[k].error[1].message # failedTests[h].error[1].message

\* the position at which the (category, pattern) of p is first seen
FirstSeen(keys, p) ==
  CHOOSE k \in Matching(keys, p) : \A h \in Matching(keys, p) : k <= h

\* C7: the list analyzeFailures() returns is sorted by occurrences in
\* non-increasing order, and patterns with equal occurrences are in the
\* order in which their (category, pattern) is first seen in the input.
C7_SortedByOccurrencesStable ==
  ret.op = "analyzeFailures" =>
    LET ps == ret.val[1]
        keys == CategoryAndPattern
    IN \A i, j \in 1..Len(ps) :
         i < j => \/ ps[i].occurrences > ps[j].occurrences
                  \/ /\ ps[i].occurrences = ps[j].occurrences
                     /\ FirstSeen(keys, ps[i]) < FirstSeen(keys, ps[j])

\* the pattern seen last comes first, before two patterns with equal
\* occurrences
C7_Witness ==
  /\ ret.op = "analyzeFailures"
  /\ Len(ret.val[1]) = 3
  /\ ret.val[1][1].occurrences = 2
  /\ ret.val[1][2].occurrences = 1
  /\ ret.val[1][3].occurrences = 1
  /\ FirstSeen(CategoryAndPattern, ret.val[1][1])
       > FirstSeen(CategoryAndPattern, ret.val[1][3])

----------------------------------------------------------------------------
(* Specification SpecReporter: one EnhancedReporter through its lifecycle,  *)
(* onBegin, onTestEnd for each test, onEnd, while the output directory may  *)
(* be removed from outside (the test runner empties its output folder).     *)

MaxReported == 2

\* TestCase
TestCase(title, titlePath) == [title |-> title, titlePath |-> titlePath, tags |-> <<>>]

\* the framework's TestResult; error is its TestInfoError, if any
FrameworkResult(status, retry, duration, startTime, error) ==
  [status |-> status, retry |-> retry, duration |-> duration,
   startTime |-> startTime, error |-> error]

FrameworkError(message, name) == [message |-> message, name |-> name, stack |-> Undefined]

\* the (test, result) pairs the framework delivers to onTestEnd
DeliveredPool ==
  { <<TestCase("a", <<"s", "a">>), FrameworkResult("passed", 0, 1, 0, Undefined)>>,
    <<TestCase("a", <<"s", "a">>), FrameworkResult("passed", 1, 2, 0, Undefined)>>,
    <<TestCase("b", <<"s", "b">>),
      FrameworkResult("failed", 0, 3, 0,
        Some(FrameworkError(Some(<<"T","i","m","e","o","u","t"," ","5","0","0","0","m","s"," ","e","x","c","e","e","d","e","d">>), Undefined)))>>,
    <<TestCase("c", <<"c">>),
      FrameworkResult("timedOut", 1, 3, 1,
        Some(FrameworkError(Undefined, Some(<<"T","i","m","e","o","u","t","E","r","r","o","r">>))))>>,
    <<TestCase("d", <<"s", "d">>), FrameworkResult("skipped", 0, 0, 0, Undefined)>>,
    <<TestCase("e", <<"s", "e">>), FrameworkResult("interrupted", 0, 1, 0, Undefined)>> }

\* new EnhancedReporter(options) with ensureReportDirectory() done
InitReporter ==
  /\ InitCollector
  /\ failedTests = <<>>
  /\ \E html, json \in BOOLEAN :
       reporter = [phase |-> "constructed", outputHTML |-> html, outputJSON |-> json,
                   startTime |-> 0, delivered |-> <<>>, log |-> <<>>,
                   outcome |-> "none"]
  /\ disk = [dirExists |-> TRUE, files |-> [a \in {} |-> TRUE]]
  /\ held = Undefined
  /\ retrying = Undefined

\* the output directory is removed from outside
RemoveReportDirectory ==
  /\ reporter.phase # "ended"
  /\ disk.dirExists
  /\ disk' = [dirExists |-> FALSE, files |-> [a \in {} |-> TRUE]]
  /\ UNCHANGED <<metrics, testResults, failures, now, ret, failedTests, reporter, held, retrying>>

OnBegin ==
  /\ reporter.phase = "constructed"
  /\ Becomes(start(self, now))
  /\ reporter' = [reporter EXCEPT !.phase = "running", !.startTime = now]
  /\ Called("onBegin", Undefined)
  /\ UNCHANGED <<now, failedTests, disk, held, retrying>>

OnTestEnd ==
  /\ reporter.phase = "running"
  /\ Len(testResults) < MaxReported
  /\ \E d \in DeliveredPool :
       /\ Becomes(onTestEnd(self, d[1], d[2], now))
       /\ reporter' = [reporter EXCEPT !.delivered = Append(@, d)]
  /\ Called("onTestEnd", Undefined)
  /\ UNCHANGED <<now, failedTests, disk, held, retrying>>

\* the reporter and its surroundings after an onEnd that ran as r
Ended(r) ==
  /\ Becomes(r.collector)
  /\ failedTests' = r.failedTests
  /\ disk' = r.disk
  /\ reporter' = [reporter EXCEPT !.phase = "ended", !.log = r.log,
                                  !.outcome = r.outcome]

OnEnd ==
  /\ reporter.phase = "running"
  /\ \E mkdirFails \in BOOLEAN, failing \in SUBSET Artifacts :
       Ended(onEnd(self, reporter, disk, now,
                   [mkdirFails |-> mkdirFails, failing |-> failing]))
  /\ Called("onEnd", Undefined)
  /\ UNCHANGED <<now, held, retrying>>

NextReporter ==
  \/ RemoveReportDirectory
  \/ OnBegin
  \/ OnTestEnd
  \/ OnEnd

SpecReporter == InitReporter /\ [][NextReporter]_vars

\* the artifacts the options of the reporter enable
EnabledArtifacts ==
  (IF reporter.outputHTML THEN {"test-report.html"} ELSE {})
    \cup (IF reporter.outputJSON
          THEN {"test-results.json", "metrics.json", "failure-analysis.json"}
          ELSE {})
    \cup {"summary.txt"}

\* the positions of the log with a step
StepsOf(step) == {i \in 1..Len(reporter.log) : reporter.log[i].step = step}

Attempted(a) ==
  \E i \in StepsOf("write") : reporter.log[i].artifact = a

\* C2: in onEnd, whatever writes fail, a write is attempted for every
\* enabled artifact (once the report directory is there).
C2_EveryEnabledArtifactAttempted ==
  (/\ reporter.phase = "ended"
   /\ \E i \in StepsOf("ensureReportDirectory") : reporter.log[i].ok)
    => \A a \in EnabledArtifacts : Attempted(a)

\* C3: onEnd's promise is fulfilled for every combination of directory
\* creation failure and write failures.
C3_OnEndNeverRejects ==
  reporter.phase = "ended" => reporter.outcome = "fulfilled"

\* the results recorded with status failed, in recording order
RecordedFailed ==
  Pick(testResults, {k \in 1..Len(testResults) : testResults[k].status = "failed"})

\* C4: within onEnd finish() comes first, then the FailureAnalyzer is
\* constructed from exactly the results recorded with status failed, then
\* come the write attempts, then the index of artifact locations; whatever
\* is written holds the sealed metrics; and every onTestEnd delivered has
\* been recorded exactly once, in order.
C4_OnEndOrder ==
  /\ testResults =
       [k \in 1..Len(reporter.delivered) |->
          convertToTestResult(reporter.delivered[k][1], reporter.delivered[k][2])]
  /\ reporter.phase # "ended" => reporter.log = <<>> /\ DOMAIN disk.files = {}
  /\ reporter.phase = "ended" =>
       /\ StepsOf("finish") = {1}
       /\ metrics.endTime # Undefined
       /\ Cardinality(StepsOf("newFailureAnalyzer")) = 1
       /\ \A i \in StepsOf("newFailureAnalyzer") : \A f \in StepsOf("finish") : f < i
       /\ failedTests = RecordedFailed
       /\ \A w \in StepsOf("write") : \A i \in StepsOf("newFailureAnalyzer") : i < w
       /\ \A p \in StepsOf("printReportLocations") :
            /\ p = Len(reporter.log)
            /\ \A w \in StepsOf("write") : w < p
       /\ \A a \in DOMAIN disk.files :
            /\ Attempted(a)
            /\ a \in {"test-report.html", "test-results.json"} =>
                 /\ disk.files[a].metrics.endTime # Undefined
                 /\ disk.files[a].metrics.failureRate = metrics.failureRate
                 /\ disk.files[a].results = testResults
            /\ a = "metrics.json" =>
                 /\ disk.files[a].endTime # Undefined
                 /\ disk.files[a].failureRate = metrics.failureRate

\* an onEnd after two deliveries, one of them failed, in which all five
\* artifacts are written and the index is printed
C4_Witness ==
  /\ reporter.phase = "ended"
  /\ Len(reporter.delivered) = 2
  /\ Len(failedTests) = 1
  /\ DOMAIN disk.files = Artifacts
  /\ StepsOf("printReportLocations") # {}

----------------------------------------------------------------------------
(* Specification SpecRun: a run as the reporter drives it. Results of a    *)
(* small run are recorded, each once and in any order, the collector is    *)
(* sealed, and a FailureAnalyzer is constructed from getFailedTests() and   *)
(* asked for its patterns (enhanced-reporter.ts, onEnd).                    *)

\* the longest duration, in units of 100 ms, of the failed results of the run
MaxRunDuration == 2

\* the results of the run: three passed ones of 100, 200 and 300 ms, one that
\* failed on a timeout and one that failed and carries no error
RunPool ==
  { TestResult("p1", "passed", 100, 0, Some(100), Undefined, 0),
    TestResult("p2", "passed", 200, 0, Some(200), Undefined, 0),
    TestResult("p3", "passed", 300, 0, Some(300), Undefined, 0) }
  \cup { TestResult("f1", "failed", 100 * d, 0, Some(100 * d), Some(ErrTimeout), 0) :
           d \in 0..MaxRunDuration }
  \cup { TestResult("f2", "failed", 100 * d, 0, Some(100 * d), Undefined, 0) :
           d \in 1..MaxRunDuration }

RecordRunTest ==
  /\ \E result \in RunPool :
       /\ \A k \in 1..Len(testResults) : testResults[k].fullName # result.fullName
       /\ Becomes(recordTest(self, result, now))
  /\ Called("recordTest", Undefined)
  /\ UNCHANGED <<now, failedTests, reporter, disk, held, retrying>>

\* const failedTests = this.metricsCollector.getFailedTests();
\* const analyzer = new FailureAnalyzer(failedTests);
NewAnalyzerOfFailedTests ==
  /\ ret.op = "finish"
  /\ failedTests' = getFailedTests(self)
  /\ Called("newFailureAnalyzer", Undefined)
  /\ UNCHANGED <<metrics, testResults, failures, now, reporter, disk, held, retrying>>

\* the largest limit given to getTestsByDuration
MaxLimit == 2

\* getTestsByDuration() and getTestsByDuration(limit)
GetTestsByDuration ==
  /\ \E limit \in {Undefined} \cup {Some(l) : l \in 0..MaxLimit} :
       Called("getTestsByDuration",
              Some([limit |-> limit, results |-> getTestsByDuration(self, limit)]))
  /\ UNCHANGED <<metrics, testResults, failures, now, failedTests, reporter, disk, held, retrying>>

NextRun ==
  \/ RecordRunTest
  \/ Finish
  \/ NewAnalyzerOfFailedTests
  \/ AnalyzeFailures
  \/ GetTestsByDuration

SpecRun == Init /\ [][NextRun]_vars

\* the fullNames of the recorded results with status failed and no error
ErrorlessFailed ==
  {testResults[k].fullName : k \in {h \in 1..Len(testResults) :
                                      /\ testResults[h].status = "failed"
                                      /\ testResults[h].error = Undefined}}

\* the elements of a sequence
Range(s) == {s[i] : i \in 1..Len(s)}

\* C11: a recorded result with status failed and no error is counted in
\* failed and in total and is among the results getFailedTests() returns,
\* but it is tallied in no entry of the failure index (so in none of
\* topFailures) and in no FailurePattern of the analyzer; recordTest and
\* analyzeFailures return normally on it.
C11_ErrorlessFailureCountedNotIndexed ==
  /\ metrics.total = Len(testResults)
  /\ metrics.failed = CountStatus("failed")
  /\ \A i \in 1..Len(failures) :
       /\ Range(failures[i].val.tests) \cap ErrorlessFailed = {}
       /\ failures[i].val.count = Len(failures[i].val.tests)
       /\ failures[i].val.count = Cardinality(TalliedBy(i))
  /\ \A p \in 1..Len(metrics.topFailures) :
       metrics.topFailures[p] \in 1..Len(failures)
  /\ ret.op \in {"newFailureAnalyzer", "analyzeFailures"} =>
       /\ failedTests = RecordedFailed
       /\ ErrorlessFailed \subseteq {failedTests[k].fullName : k \in 1..Len(failedTests)}
  /\ ret.op = "analyzeFailures" =>
       /\ \A i \in 1..Len(ret.val[1]) :
            /\ Range(ret.val[1][i].affectedTests) \cap ErrorlessFailed = {}
            /\ ret.val[1][i].occurrences = Len(ret.val[1][i].affectedTests)
       /\ SumOccurrences(ret.val[1]) = Cardinality(Analyzed)

\* a failed result without an error recorded before one with an error, the
\* run sealed and analysed
C11_Witness ==
  /\ ret.op = "analyzeFailures"
  /\ metrics.failed = 2
  /\ Len(failedTests) = 2
  /\ failedTests[1].error = Undefined
  /\ Len(failures) = 1
  /\ Len(metrics.topFailures) = 1
  /\ Len(ret.val[1]) = 1

----------------------------------------------------------------------------
(* Specification SpecSnapshot: a caller keeps the first object getMetrics() *)
(* returned while the collector goes on, calls getMetrics() again, and      *)
(* removes the last element of the snapshot's topFailures.                  *)
(*                                                                          *)
(* { ...this.metrics } is a new object whose fields are those of            *)
(* this.metrics: numbers and strings by value, objects by reference. Its    *)
(* topFailures is the array this.metrics.topFailures itself until finish()  *)
(* or reset() gives the collector another array, and the elements of that   *)
(* array are the FailureAnalysis objects of the Map failures, which         *)
(* recordFailure updates in place.                                          *)

MaxHeldTests == 2

MaxSnapshots == 2

\* the results offered to recordTest
HeldPool ==
  { TestResult("t1", "passed", 2, 0, Some(2), Undefined, 0),
    TestResult("t3", "failed", 3, 0, Some(3), Some(ErrTimeout), 0),
    TestResult("t4", "failed", 3, 1, Some(4), Some(ErrTimeout), 1),
    TestResult("t11", "failed", 1, 0, Some(1), Some(ErrExpect), 0) }

\* getMetrics() returning this.metrics itself
getMetricsObject_SameObject(c, returned) == [ref |-> 0, copy |-> getMetrics(c)]

\* the object getMetrics() returns: ref tells the objects apart, 0 is
\* this.metrics and n > 0 the n-th object a getMetrics() call has created;
\* copy holds the fields
getMetricsObject(c, returned) == [ref |-> returned + 1, copy |-> getMetrics(c)]

\* the snapshot a caller keeps, just returned as the first one: its
\* topFailures is the collector's array (sharesList), the elements are the
\* objects of the Map (entries is set once the Map has let go of them), and
\* no collector operation has run since (clean)
keptSnapshot(object) ==
  [ref |-> object.ref, copy |-> object.copy, sharesList |-> TRUE,
   entries |-> Undefined, clean |-> TRUE, returned |-> 1]

\* the FailureAnalysis objects the elements of the snapshot's topFailures
\* refer to, as they are now
heldEntries(h, fs) ==
  IF h.entries = Undefined
  THEN [i \in 1..Len(h.copy.topFailures) |-> fs[h.copy.topFailures[i]].val]
  ELSE h.entries[1]

\* what the caller reads through the snapshot
snapshotView(h, fs) == [h.copy EXCEPT !.topFailures = heldEntries(h, fs)]

\* the snapshot after recordTest: nothing of it is reassigned
heldAfterRecordTest(h) == [h EXCEPT !.clean = FALSE]

\* the snapshot after finish(): this.metrics.topFailures is a new array
heldAfterFinish(h) == [h EXCEPT !.clean = FALSE, !.sharesList = FALSE]

\* the snapshot after reset(): this.metrics is a new object with a new
\* array, and failures.clear() leaves the FailureAnalysis objects to the
\* snapshot alone
heldAfterReset(h, fs) ==
  [h EXCEPT !.clean = FALSE, !.sharesList = FALSE,
            !.entries = Some(heldEntries(h, fs))]

\* s without its last element: Array.prototype.pop()
pop(s) == SubSeq(s, 1, Len(s) - 1)

\* the snapshot after snapshot.topFailures.pop()
heldAfterPop(h) ==
  [h EXCEPT !.copy.topFailures = pop(@),
            !.entries = IF @ = Undefined THEN @ ELSE Some(pop(@[1]))]

RecordHeldTest ==
  /\ Len(testResults) < MaxHeldTests
  /\ \E result \in HeldPool : Becomes(recordTest(self, result, now))
  /\ Called("recordTest", Undefined)
  /\ held' = IF held = Undefined THEN held ELSE Some(heldAfterRecordTest(held[1]))
  /\ UNCHANGED <<now, failedTests, reporter, disk, retrying>>

FinishHeld ==
  /\ Becomes(finish(self, now))
  /\ Called("finish", Undefined)
  /\ held' = IF held = Undefined THEN held ELSE Some(heldAfterFinish(held[1]))
  /\ UNCHANGED <<now, failedTests, reporter, disk, retrying>>

ResetHeld ==
  /\ Becomes(reset(self, now))
  /\ Called("reset", Undefined)
  /\ held' = IF held = Undefined THEN held ELSE Some(heldAfterReset(held[1], failures))
  /\ UNCHANGED <<now, failedTests, reporter, disk, retrying>>

\* getMetrics(); the caller keeps the first object it gets
GetMetrics ==
  /\ held # Undefined => held[1].returned < MaxSnapshots
  /\ LET returned == IF held = Undefined THEN 0 ELSE held[1].returned
         object == getMetricsObject(self, returned)
     IN /\ Called("getMetrics", Some(object))
        /\ held' = IF held = Undefined THEN Some(keptSnapshot(object))
                   ELSE Some([held[1] EXCEPT !.returned = @ + 1])
  /\ UNCHANGED <<metrics, testResults, failures, now, failedTests, reporter, disk, retrying>>

\* snapshot.topFailures.pop() by the caller: the array loses its last
\* element, and it is the collector's array as long as the two share it
PopTopFailures ==
  /\ held # Undefined
  /\ held[1].copy.topFailures # <<>>
  /\ held' = Some(heldAfterPop(held[1]))
  /\ metrics' = IF held[1].sharesList
                THEN [metrics EXCEPT !.topFailures = pop(@)] ELSE metrics
  /\ Called("topFailures.pop", Undefined)
  /\ UNCHANGED <<testResults, failures, now, failedTests, reporter, disk, retrying>>

NextSnapshot ==
  \/ RecordHeldTest
  \/ FinishHeld
  \/ ResetHeld
  \/ GetMetrics
  \/ PopTopFailures

SpecSnapshot == Init /\ [][NextSnapshot]_vars

\* C12: of two successive getMetrics() calls with no collector operation in
\* between, the second returns an object whose fields equal those of the
\* first, and which is another object than the first.
C12_GetMetricsEqualNotSame ==
  (/\ ret.op = "getMetrics"
   /\ held[1].returned >= 2
   /\ held[1].clean)
    => /\ ret.val[1].copy = held[1].copy
       /\ ret.val[1].ref # held[1].ref

\* a second getMetrics() right after the first, on sealed metrics with two
\* top failures
C12_Witness ==
  /\ ret.op = "getMetrics"
  /\ held[1].returned = 2
  /\ held[1].clean
  /\ Len(held[1].copy.topFailures) = 2
  /\ metrics.total = 2

\* C13: no recordTest, finish or reset changes what is read through a
\* snapshot returned earlier, the entries of its topFailures included, and
\* removing an element of the snapshot's topFailures leaves the collector's
\* metrics, which a later getMetrics() copies, as they were.
C13_SnapshotSharesNothing ==
  [][(held # Undefined /\ held' # Undefined) =>
       /\ ret'.op \in {"recordTest", "finish", "reset"} =>
            snapshotView(held[1], failures)' = snapshotView(held[1], failures)
       /\ ret'.op = "topFailures.pop" => metrics' = metrics]_vars

\* C14: with n results recorded, getTestsByDuration(limit) for an integer
\* limit >= 0 returns min(limit, n) results and getTestsByDuration() returns
\* all n; what is returned is in non-increasing order of duration, holds
\* recorded results, each once, and leaves out none that lasted longer than
\* one it holds; the call leaves testResults as it was.
C14_TestsByDuration ==
  [][ret'.op = "getTestsByDuration" =>
       LET limit == ret'.val[1].limit
           out == ret'.val[1].results
           n == Len(testResults)
           names == {out[i].fullName : i \in 1..Len(out)}
       IN /\ testResults' = testResults
          /\ Len(out) = IF limit = Undefined THEN n ELSE Min(limit[1], n)
          /\ \A i, j \in 1..Len(out) : i < j => out[i].duration >= out[j].duration
          /\ Cardinality(names) = Len(out)
          /\ \A i \in 1..Len(out) : \E k \in 1..n : testResults[k] = out[i]
          /\ \A k \in 1..n :
               testResults[k].fullName \notin names =>
                 \A i \in 1..Len(out) : testResults[k].duration <= out[i].duration]_vars

----------------------------------------------------------------------------
(* Specification SpecCategorize: a FailureAnalyzer constructed with one     *)
(* failed test, or with two whose errors differ in stack and location only, *)
(* the message being up to MaxWords words and the type one of ErrorTypes,   *)
(* then analyzeFailures().                                                  *)

MaxWords == 2

\* the words a message is made of: for each category one that the code
\* looks for, in the case Playwright writes it, and one of no category
MessageWords ==
  { <<"T","i","m","e","o","u","t">>, <<"e","x","p","e","c","t">>, <<"s","e","l","e","c","t","o","r">>, <<"f","e","t","c","h">>, <<"g","o","t","o">>, <<"L","o","g","i","n">>, <<"d","a","t","a">>, <<"f","a","i","l","e","d">> }

ErrorTypes ==
  { <<"E","r","r","o","r">>, <<"T","i","m","e","o","u","t","E","r","r","o","r">>, <<"A","s","s","e","r","t","i","o","n","E","r","r","o","r">>, <<"N","e","t","w","o","r","k","E","r","r","o","r">>,
    <<"A","u","t","h","e","n","t","i","c","a","t","i","o","n","E","r","r","o","r">>, <<"D","a","t","a","E","r","r","o","r">> }

\* the texts of n words
RECURSIVE Texts(_)
Texts(n) ==
  IF n = 0 THEN {<<>>}
  ELSE {t \o w : t \in Texts(n - 1), w \in MessageWords}

\* new FailureAnalyzer(tests)
NewAnalyzerOfError ==
  /\ ret.op = "new"
  /\ \E n \in 0..MaxWords, type \in ErrorTypes, twice \in BOOLEAN :
       \E message \in Texts(n) :
         failedTests' =
           <<TestResult("t1", "failed", 1, 0, Some(1),
                        Some(TestError(type, message, Undefined)), 0)>>
           \o (IF twice
               THEN <<TestResult("t2", "failed", 1, 0, Some(1),
                        Some([TestError(type, message, Some("at a.spec.ts:3"))
                                EXCEPT !.location = Some([file |-> "a.spec.ts",
                                                          line |-> 3, column |-> 1])]),
                        0)>>
               ELSE <<>>)
  /\ Called("newFailureAnalyzer", Undefined)
  /\ UNCHANGED <<metrics, testResults, failures, now, reporter, disk, held, retrying>>

NextCategorize ==
  \/ NewAnalyzerOfError
  \/ AnalyzeFailures

SpecCategorize == Init /\ [][NextCategorize]_vars

\* the categories that have keywords, in the order they are tried
CategoryOrder ==
  <<"timeout", "assertion", "element-not-found", "network", "navigation",
    "authentication", "data">>

\* the keywords of a category
Keywords(category) ==
  CASE category = "timeout" -> {<<"t","i","m","e","o","u","t">>}
    [] category = "assertion" -> {<<"e","x","p","e","c","t">>, <<"a","s","s","e","r","t">>, <<"a","s","s","e","r","t","i","o","n">>}
    [] category = "element-not-found" -> {<<"l","o","c","a","t","o","r">>, <<"e","l","e","m","e","n","t">>, <<"s","e","l","e","c","t","o","r">>}
    [] category = "network" -> {<<"n","e","t","w","o","r","k">>, <<"n","e","t",":",":">>, <<"f","e","t","c","h">>}
    [] category = "navigation" -> {<<"n","a","v","i","g","a","t","i","o","n">>, <<"g","o","t","o">>}
    [] category = "authentication" -> {<<"a","u","t","h","e","n","t","i","c","a","t","i","o","n">>, <<"l","o","g","i","n">>, <<"u","n","a","u","t","h","o","r","i","z","e","d">>}
    [] category = "data" -> {<<"d","a","t","a">>, <<"v","a","l","i","d","a","t","i","o","n">>}

\* text holds a keyword of the category, in any case
HoldsKeyword(text, category) ==
  \E w \in Keywords(category) : includes(toLowerCase(text), w)

\* the keyword check of a category: its keywords in the message, and for
\* timeout and assertion also timeout and assertion in the type
KeywordCheck(category, error) ==
  \/ HoldsKeyword(error.message, category)
  \/ category = "timeout" /\ includes(toLowerCase(error.type), <<"t","i","m","e","o","u","t">>)
  \/ category = "assertion" /\ includes(toLowerCase(error.type), <<"a","s","s","e","r","t","i","o","n">>)

\* the first category of CategoryOrder that P holds of, unknown if none
FirstCategory(matching) ==
  IF \E i \in 1..Len(CategoryOrder) : CategoryOrder[i] \in matching
  THEN CategoryOrder[CHOOSE i \in 1..Len(CategoryOrder) :
                       /\ CategoryOrder[i] \in matching
                       /\ \A j \in 1..(i - 1) : CategoryOrder[j] \notin matching]
  ELSE "unknown"

\* C15: every failed test is given one category, the first in the order
\* timeout, assertion, element-not-found, network, navigation,
\* authentication, data whose keyword check its error passes and unknown
\* if and only if it passes none; tests whose errors agree in message and
\* type are given the same category whatever their stack and location.
C15_FirstMatchingCategory ==
  ret.op = "analyzeFailures" =>
    LET ps == ret.val[1]
    IN /\ \A k \in 1..Len(failedTests) :
            \E i \in 1..Len(ps) :
              /\ failedTests[k].fullName \in Range(ps[i].affectedTests)
              /\ ps[i].category \in FailureCategories
              /\ ps[i].category =
                   FirstCategory({c \in Range(CategoryOrder) :
                                    KeywordCheck(c, failedTests[k].error[1])})
              /\ \A j \in 1..Len(ps) :
                   failedTests[k].fullName \in Range(ps[j].affectedTests) => j = i
       /\ \A k, h \in 1..Len(failedTests) :
            (/\ failedTests[k].error[1].message = failedTests[h].error[1].message
             /\ failedTests[k].error[1].type = failedTests[h].error[1].type)
              => \E i \in 1..Len(ps) :
                   {failedTests[k].fullName, failedTests[h].fullName}
                     \subseteq Range(ps[i].affectedTests)

\* two tests that differ in stack and location, with a message that passes
\* the checks of timeout and of assertion
C15_Witness ==
  /\ ret.op = "analyzeFailures"
  /\ Len(failedTests) = 2
  /\ failedTests[1].error[1].stack # failedTests[2].error[1].stack
  /\ failedTests[1].error[1].message = <<"e","x","p","e","c","t","T","i","m","e","o","u","t">>
  /\ Len(ret.val[1]) = 1
  /\ ret.val[1][1].category = "timeout"
  /\ ret.val[1][1].occurrences = 2

\* C16: the keywords of every category are looked for, in any case, in the
\* message and in the type: a test is given the first category of which
\* the message or the type of its error holds a keyword, so one whose type
\* holds a keyword of network, navigation, authentication, data or
\* element-not-found and whose message holds no keyword is not unknown.
C16_KeywordsCheckedInMessageAndType ==
  ret.op = "analyzeFailures" =>
    \A k \in 1..Len(failedTests) :
      \E i \in 1..Len(ret.val[1]) :
        /\ failedTests[k].fullName \in Range(ret.val[1][i].affectedTests)
        /\ ret.val[1][i].category =
             FirstCategory({c \in Range(CategoryOrder) :
                              \/ HoldsKeyword(failedTests[k].error[1].message, c)
                              \/ HoldsKeyword(failedTests[k].error[1].type, c)})

\* C17: every FailurePattern has the severity of its category, high for
\* authentication, network and navigation, medium for element-not-found
\* and timeout, low for assertion, data and unknown, and its description
\* and suggestedFix are the texts of its category, whatever its pattern.
C17_SeverityAndTextsByCategory ==
  ret.op = "analyzeFailures" =>
    \A i \in 1..Len(ret.val[1]) :
      LET p == ret.val[1][i]
      IN /\ p.category \in {"authentication", "network", "navigation"}
              => p.severity = "high"
         /\ p.category \in {"element-not-found", "timeout"} => p.severity = "medium"
         /\ p.category \in {"assertion", "data", "unknown"} => p.severity = "low"
         /\ p.severity \in {"high", "medium", "low"}
         /\ p.description = getPatternDescription(p.category, <<>>)
         /\ p.suggestedFix = getSuggestedFix(p.category, <<>>)
         /\ p.category = categorizeFailure(
              failedTests[CHOOSE k \in 1..Len(failedTests) :
                            failedTests[k].fullName = p.affectedTests[1]].error[1])

\* a timeout, rated medium, whose pattern is not the empty text
C17_Witness ==
  /\ ret.op = "analyzeFailures"
  /\ Len(ret.val[1]) = 1
  /\ ret.val[1][1].category = "timeout"
  /\ ret.val[1][1].severity = "medium"
  /\ ret.val[1][1].pattern = <<"T","i","m","e","o","u","t">>
  /\ ret.val[1][1].description = "Test exceeded the maximum execution time"

\* the three passed results and the one that failed on a timeout have been
\* recorded and nothing else, the collector has been sealed since, and only
\* the analyzer has been used after that
ScenarioA ==
  /\ Len(testResults) = 4
  /\ {testResults[k].fullName : k \in 1..4} = {"p1", "p2", "p3", "f1"}
  /\ ret.op \in {"finish", "newFailureAnalyzer", "analyzeFailures"}

\* C18: after 3 passed results of 100, 200 and 300 ms and 1 failed result
\* with message "Timeout 5000ms exceeded" and type "TimeoutError", in any
\* order, and finish(): total = 4, passed = 3, failed = 1,
\* averageTestDuration is the sum of the 4 durations divided by 4,
\* failureRate = 25, and analyzeFailures() on the failed tests returns one
\* pattern, of category timeout, pattern "Timeout 5000ms", occurrences 1
\* and severity medium.
C18_ScenarioA ==
  ScenarioA =>
    /\ metrics.total = 4 /\ metrics.passed = 3 /\ metrics.failed = 1
    /\ metrics.skipped = 0 /\ metrics.flaky = 0
    /\ \E d \in 0..(100 * MaxRunDuration) :
         /\ \E k \in 1..4 : testResults[k].fullName = "f1" /\ testResults[k].duration = d
         /\ metrics.averageTestDuration = Rat(100 + 200 + 300 + d, 4)
    /\ metrics.failureRate = [num |-> 25, den |-> 1]
    /\ ret.op = "analyzeFailures" =>
         /\ Len(ret.val[1]) = 1
         /\ ret.val[1][1].category = "timeout"
         /\ ret.val[1][1].pattern = <<"T","i","m","e","o","u","t"," ","5","0","0","0","m","s">>
         /\ ret.val[1][1].occurrences = 1
         /\ ret.val[1][1].severity = "medium"

\* the failed result, of 100 ms, recorded first, and the patterns returned
C18_Witness ==
  /\ ScenarioA
  /\ ret.op = "analyzeFailures"
  /\ testResults[1].fullName = "f1"
  /\ metrics.averageTestDuration = [num |-> 175, den |-> 1]

\* C20: when no test has been recorded, every rate the reporter computes in
\* onEnd is the number 0: getPassRate(), failureRate as finish() leaves it,
\* and the pass rate in the header of the HTML report, which reads 0.0.
C20_RatesOfEmptyRunAreZero ==
  (reporter.phase = "ended" /\ metrics.total = 0) =>
    /\ getPassRate(self) = Rat(0, 1)
    /\ metrics.failureRate = Rat(0, 1)
    /\ "test-report.html" \in DOMAIN disk.files =>
         /\ disk.files["test-report.html"].header.passRate = <<"0",".","0">>
         /\ parseFloat(disk.files["test-report.html"].header.passRate) = Rat(0, 1)

----------------------------------------------------------------------------
(* Specification SpecAccessors: results of every status, some lasting       *)
(* equally long and some retried, are recorded; the accessors of the        *)
(* collector are called at any point.                                       *)

MaxRecorded == 3

\* the results offered to recordTest
AccessPool ==
  { TestResult("a", "passed", 1, 0, Some(1), Undefined, 0),
    TestResult("b", "passed", 1, 0, Some(1), Undefined, 0),
    TestResult("c", "passed", 2, 0, Some(2), Undefined, 1),
    TestResult("d", "failed", 2, 0, Some(2), Some(ErrTimeout), 0),
    TestResult("e", "failed", 2, 0, Some(2), Undefined, 1),
    TestResult("f", "skipped", 0, 0, Some(0), Undefined, 0),
    TestResult("g", "flaky", 2, 0, Some(2), Undefined, 1) }

RecordAccessTest ==
  /\ Len(testResults) < MaxRecorded
  /\ \E result \in AccessPool : Becomes(recordTest(self, result, now))
  /\ Called("recordTest", Undefined)
  /\ UNCHANGED <<now, failedTests, reporter, disk, held, retrying>>

\* getTestsByStatus(status)
GetTestsByStatus ==
  /\ \E status \in Statuses :
       Called("getTestsByStatus",
              Some([status |-> status, results |-> getTestsByStatus(self, status)]))
  /\ UNCHANGED <<metrics, testResults, failures, now, failedTests, reporter, disk, held, retrying>>

\* getPassedTests(), getFailedTests(), getSkippedTests()
GetTestsOfStatus ==
  /\ \/ Called("getPassedTests", Some([status |-> "passed", results |-> getPassedTests(self)]))
     \/ Called("getFailedTests", Some([status |-> "failed", results |-> getFailedTests(self)]))
     \/ Called("getSkippedTests", Some([status |-> "skipped", results |-> getSkippedTests(self)]))
  /\ UNCHANGED <<metrics, testResults, failures, now, failedTests, reporter, disk, held, retrying>>

GetFlakyTests ==
  /\ Called("getFlakyTests", Some(getFlakyTests(self)))
  /\ UNCHANGED <<metrics, testResults, failures, now, failedTests, reporter, disk, held, retrying>>

GetTestResults ==
  /\ Called("getTestResults", Some(getTestResults(self)))
  /\ UNCHANGED <<metrics, testResults, failures, now, failedTests, reporter, disk, held, retrying>>

NextAccessors ==
  \/ RecordAccessTest
  \/ Reset
  \/ GetTestsByStatus
  \/ GetTestsOfStatus
  \/ GetFlakyTests
  \/ GetTestResults

SpecAccessors == Init /\ [][NextAccessors]_vars

\* the counter of the metrics that counts a status
CounterOf(status) ==
  CASE status = "passed" -> metrics.passed
    [] status = "failed" -> metrics.failed
    [] status = "skipped" -> metrics.skipped
    [] status = "flaky" -> metrics.flaky

\* C21: getTestsByStatus(s), and getPassedTests, getFailedTests and
\* getSkippedTests for their status, return the recorded results of that
\* status in recording order, as many as the counter of the status says;
\* getTestResults() returns total results; getFlakyTests() returns the
\* recorded results with status flaky or retries > 0, in recording order.
C21_Accessors ==
  /\ ret.op \in {"getTestsByStatus", "getPassedTests", "getFailedTests", "getSkippedTests"} =>
       /\ ret.val[1].results =
            Pick(testResults, {k \in 1..Len(testResults) :
                                 testResults[k].status = ret.val[1].status})
       /\ Len(ret.val[1].results) = CounterOf(ret.val[1].status)
  /\ ret.op = "getTestResults" =>
       /\ ret.val[1] = testResults
       /\ Len(ret.val[1]) = metrics.total
  /\ ret.op = "getFlakyTests" =>
       ret.val[1] = Pick(testResults, {k \in 1..Len(testResults) :
                                         \/ testResults[k].status = "flaky"
                                         \/ testResults[k].retries > 0})

\* getFlakyTests() returning a passed and a failed result that were retried
\* and a flaky one
C21_Witness ==
  /\ ret.op = "getFlakyTests"
  /\ Len(ret.val[1]) = 3
  /\ {ret.val[1][i].status : i \in 1..3} = {"passed", "failed", "flaky"}

\* the sum of the durations of the first n recorded results
DurationSum(n) ==
  LET sum[i \in 0..n] == IF i = 0 THEN 0 ELSE sum[i - 1] + testResults[i].duration
  IN sum[n]

\* C22: once a result has been recorded, averageTestDuration times the
\* number of results recorded since construction or the last reset is the
\* sum of their durations, whatever their status.
C22_AverageOfAllDurations ==
  testResults # <<>> =>
    /\ metrics.averageTestDuration.den > 0
    /\ metrics.averageTestDuration.num * Len(testResults)
         = metrics.averageTestDuration.den * DurationSum(Len(testResults))

\* three results after a reset, a skipped one of 0 ms among them, whose
\* average is no whole number
C22_Witness ==
  /\ ret.op = "recordTest"
  /\ Len(testResults) = 3
  /\ metrics.skipped = 1 /\ metrics.failed = 1 /\ metrics.passed = 1
  /\ metrics.averageTestDuration = [num |-> 4, den |-> 3]

\* the recorded results among K whose duration is the least (sign = 1) or
\* the greatest (sign = -1) of K, the earliest of them
EarliestExtreme(K, sign) ==
  CHOOSE k \in K :
    /\ \A h \in K : sign * testResults[k].duration <= sign * testResults[h].duration
    /\ \A h \in K : testResults[h].duration = testResults[k].duration => k <= h

\* the positions of the recorded results with status passed
PassedAt == {k \in 1..Len(testResults) : testResults[k].status = "passed"}

\* C23: slowestTest is the earliest recorded result of the longest
\* duration among all recorded results, fastestTest the earliest recorded
\* result with status passed of the shortest duration among the passed
\* ones, and fastestTest is undefined as long as no passed result has been
\* recorded.
C23_SlowestAndFastest ==
  /\ metrics.slowestTest =
       IF testResults = <<>> THEN Undefined
       ELSE Some(testResults[EarliestExtreme(1..Len(testResults), -1)])
  /\ metrics.fastestTest =
       IF PassedAt = {} THEN Undefined
       ELSE Some(testResults[EarliestExtreme(PassedAt, 1)])

\* two results of the longest duration and two passed ones of the shortest
C23_Witness ==
  /\ Len(testResults) = 3
  /\ testResults[1].fullName = "b" /\ testResults[2].fullName = "a"
  /\ testResults[3].fullName = "c"
  /\ metrics.fastestTest = Some(testResults[1])
  /\ metrics.slowestTest = Some(testResults[3])

\* the status the reporter is to give a framework result
StatusFor(result) ==
  CASE result.status = "skipped" -> "skipped"
    [] result.status = "passed" /\ result.retry > 0 -> "flaky"
    [] result.status = "passed" /\ result.retry = 0 -> "passed"
    [] result.status \in {"failed", "timedOut", "interrupted"} -> "failed"

\* C24: the collector of the reporter holds one result per onTestEnd, in
\* the order of the calls, and the result recorded for a framework result
\* has status skipped if that was skipped, flaky if it passed with
\* retry > 0, passed if it passed with retry = 0 and failed if it failed,
\* timed out or was interrupted; its retries are the retry and its endTime
\* is startTime + duration.
C24_OneConvertedResultPerTestEnd ==
  /\ Len(testResults) = Len(reporter.delivered)
  /\ metrics.total = Len(reporter.delivered)
  /\ \A i \in 1..Len(reporter.delivered) :
       LET result == reporter.delivered[i][2]
       IN /\ testResults[i].status = StatusFor(result)
          /\ testResults[i].status \in Statuses
          /\ testResults[i].retries = result.retry
          /\ testResults[i].startTime = result.startTime
          /\ testResults[i].endTime = Some(result.startTime + result.duration)

\* a run that timed out on its retry and a passed retry have been delivered
C24_Witness ==
  /\ ret.op = "onTestEnd"
  /\ Len(reporter.delivered) = 2
  /\ reporter.delivered[1][2].status = "timedOut"
  /\ reporter.delivered[1][2].retry = 1
  /\ testResults[1].status = "failed"
  /\ testResults[1].endTime = Some(4)
  /\ reporter.delivered[2][2].status = "passed"
  /\ testResults[2].status = "flaky"

----------------------------------------------------------------------------
(* Specification SpecHeader: buildHeader on the metrics of a run of 1 to    *)
(* MaxHeaderTotal results of which any number passed.                       *)

MaxHeaderTotal == 404

\* the metrics of a finished run of total results, passed of them passed
\* and the others failed
HeaderMetrics(passed, total) ==
  [newMetrics(0, "chromium", "dev") EXCEPT
     !.total = total, !.passed = passed, !.failed = total - passed,
     !.failureRate = Rat((total - passed) * 100, total),
     !.endTime = Some(0)]

\* generateReport(metrics, ...) has been called with the metrics of a run
InitHeader ==
  /\ now = 0
  /\ metrics = newCollector(0).metrics
  /\ testResults = <<>>
  /\ failures = <<>>
  /\ failedTests = <<>>
  /\ reporter = Undefined
  /\ disk = Undefined
  /\ held = Undefined
  /\ retrying = Undefined
  /\ \E total \in 1..MaxHeaderTotal : \E passed \in 0..total :
       ret = [op |-> "generateReport", val |-> Some(HeaderMetrics(passed, total))]

\* buildHeader(metrics)
BuildHeader ==
  /\ ret.op = "generateReport"
  /\ Called("buildHeader", Some([metrics |-> ret.val[1], header |-> buildHeader(ret.val[1])]))
  /\ UNCHANGED <<metrics, testResults, failures, now, failedTests, reporter, disk, held, retrying>>

NextHeader == BuildHeader

SpecHeader == InitHeader /\ [][NextHeader]_vars

\* C25 as stated: the class is success if and only if passed/total*100 >=
\* 80, warning if and only if 50 <= passed/total*100 < 80, and error
\* otherwise.
C25_ClassByPassRate ==
  ret.op = "buildHeader" =>
    LET m == ret.val[1].metrics
        class == ret.val[1].header.statusClass
    IN /\ class = "success" <=> 100 * m.passed >= 80 * m.total
       /\ class = "warning" <=> /\ 100 * m.passed >= 50 * m.total
                                /\ 100 * m.passed < 80 * m.total
       /\ class = "error" <=> 100 * m.passed < 50 * m.total

\* the number of tenths in passed/total*100 written with one decimal
ShownTenths(m) == (2000 * m.passed + m.total) \div (2 * m.total)

\* C25, amended: for total > 0 the class is success if and only if
\* passed/total*100 as the header shows it, rounded to one decimal, is >=
\* 80, warning if and only if that shown rate is >= 50 and < 80, and error
\* otherwise.
C25_ClassByShownPassRate ==
  ret.op = "buildHeader" =>
    LET m == ret.val[1].metrics
        class == ret.val[1].header.statusClass
    IN /\ class = "success" <=> ShownTenths(m) >= 800
       /\ class = "warning" <=> ShownTenths(m) >= 500 /\ ShownTenths(m) < 800
       /\ class = "error" <=> ShownTenths(m) < 500

\* 323 of 404 passed: 79.95...% is shown as 80.0% and classed success
C25_Witness ==
  /\ ret.op = "buildHeader"
  /\ ret.val[1].metrics.passed = 323
  /\ ret.val[1].metrics.total = 404
  /\ ret.val[1].header.passRate = <<"8","0",".","0">>
  /\ ret.val[1].header.statusClass = "success"

----------------------------------------------------------------------------
(* Specification SpecChart: getScripts on a list of up to MaxChartResults   *)
(* results of 1000 or 2000 ms each.                                         *)

MaxChartResults == 11

\* the name of the i-th result of a list
ChartName(i) == <<"t">> \o decimal(i)

\* generateReport(metrics, testResults, ...) has been called with a list of
\* results
InitChart ==
  /\ now = 0
  /\ metrics = newCollector(0).metrics
  /\ testResults = <<>>
  /\ failures = <<>>
  /\ failedTests = <<>>
  /\ reporter = Undefined
  /\ disk = Undefined
  /\ held = Undefined
  /\ retrying = Undefined
  /\ \E n \in 0..MaxChartResults : \E seconds \in [1..n -> {1, 2}] :
       ret = [op |-> "generateReport",
              val |-> Some([testResults |->
                 [i \in 1..n |-> TestResult(ChartName(i), "passed", 1000 * seconds[i],
                                            0, Some(1000 * seconds[i]), Undefined, 0)]])]

\* getScripts(metrics, testResults): the list the caller passed, as it is
\* afterwards, and the dataset of the duration chart
GetScripts ==
  /\ ret.op = "generateReport"
  /\ Called("getScripts", Some([testResults |-> ret.val[1].testResults,
                                durationData |-> durationData(ret.val[1].testResults)]))
  /\ UNCHANGED <<metrics, testResults, failures, now, failedTests, reporter, disk, held, retrying>>

NextChart == GetScripts

SpecChart == InitChart /\ [][NextChart]_vars

\* the positions in the list rs of the results the dataset names
ChartedAt(rs, data) == {k \in 1..Len(rs) : \E i \in 1..Len(data) : data[i].name = rs[k].name}

\* C26: the dataset of the duration chart holds min(10, n) of the n
\* results, none of the others lasts longer than one of them, and they are
\* in non-increasing order of duration; the list passed in is left as it
\* was.
C26_DurationChartDataset ==
  ret.op = "getScripts" =>
    LET rs == ret.val[1].testResults
        data == ret.val[1].durationData
        charted == ChartedAt(rs, data)
        positionOf(i) == (CHOOSE k \in charted : rs[k].name = data[i].name)
    IN /\ Len(data) = Min(10, Len(rs))
       /\ Cardinality(charted) = Len(data)
       /\ \A k \in charted : \A h \in (1..Len(rs)) \ charted :
            rs[h].duration <= rs[k].duration
       /\ \A i \in 1..(Len(data) - 1) :
            rs[positionOf(i)].duration >= rs[positionOf(i + 1)].duration
       /\ \A k \in 1..Len(rs) : rs[k].name = ChartName(k)

----------------------------------------------------------------------------
(* Specification SpecPattern: a FailureAnalyzer constructed with one failed *)
(* test whose message is up to MaxPatternWords of the phrases the pattern   *)
(* rules look for, then analyzeFailures().                                  *)

MaxPatternWords == 2

\* a word of 60 characters: two of them make a line longer than PatternLimit
LongWord == [i \in 1..60 |-> "x"]

\* the phrases a message is made of: for each rule one that its expression
\* matches and one that only holds its word, a word with a line break and
\* a long word
PatternWords ==
  { <<"T","i","m","e","o","u","t"," ","3","0","m","s"," ">>, <<"T","i","m","e","o","u","t"," ">>, <<"l","o","c","a","t","o","r","(","'","#","a","'",")"," ">>, <<"l","o","c","a","t","o","r","(","x",")"," ">>,
    <<"e","x","p","e","c","t","(","v",")"," ">>, <<"e","x","p","e","c","t","(",")"," ">>, <<"f","a","i","l","e","d","\n">>, LongWord }

\* the messages of n phrases
RECURSIVE PatternTexts(_)
PatternTexts(n) ==
  IF n = 0 THEN {<<>>}
  ELSE {t \o w : t \in PatternTexts(n - 1), w \in PatternWords}

\* new FailureAnalyzer(tests)
NewAnalyzerOfMessage ==
  /\ ret.op = "new"
  /\ \E n \in 0..MaxPatternWords : \E message \in PatternTexts(n) :
       failedTests' =
         <<TestResult("t1", "failed", 1, 0, Some(1),
                      Some(TestError(<<"E","r","r","o","r">>, message, Undefined)), 0)>>
  /\ Called("newFailureAnalyzer", Undefined)
  /\ UNCHANGED <<metrics, testResults, failures, now, reporter, disk, held, retrying>>

NextPattern ==
  \/ NewAnalyzerOfMessage
  \/ AnalyzeFailures

SpecPattern == Init /\ [][NextPattern]_vars

\* the message analyzed and the pattern found for it
AnalyzedMessage == failedTests[1].error[1].message

FoundPattern == ret.val[1][1].pattern

\* the pattern is the first line of the message cut to 100 characters
FirstLineCut ==
  /\ Len(FoundPattern) <= 100
  /\ \A i \in 1..Len(FoundPattern) : FoundPattern[i] # "\n"
  /\ FoundPattern = SubSeq(AnalyzedMessage, 1, Len(FoundPattern))
  /\ \/ Len(FoundPattern) = 100
     \/ Len(FoundPattern) = Len(AnalyzedMessage)
     \/ AnalyzedMessage[Len(FoundPattern) + 1] = "\n"

\* C27 as stated: a message with a timeout phrase and duration yields
\* "Timeout <N>ms"; otherwise one with a quoted locator literal yields
\* "Locator: <literal>"; otherwise one with an expect(...) expression yields
\* "Assertion failed: <expr>"; otherwise the pattern is the first line of
\* the message cut to at most 100 characters.
C27_RulesByMatch ==
  ret.op = "analyzeFailures" =>
    IF matchTimeout(AnalyzedMessage) # Undefined
    THEN FoundPattern = <<"T","i","m","e","o","u","t"," ">> \o matchTimeout(AnalyzedMessage)[1] \o <<"m","s">>
    ELSE IF matchLocator(AnalyzedMessage) # Undefined
    THEN FoundPattern = <<"L","o","c","a","t","o","r",":"," ">> \o matchLocator(AnalyzedMessage)[1]
    ELSE IF matchExpect(AnalyzedMessage) # Undefined
    THEN FoundPattern = <<"A","s","s","e","r","t","i","o","n"," ","f","a","i","l","e","d",":"," ">> \o matchExpect(AnalyzedMessage)[1]
    ELSE FirstLineCut

\* the rule that applies to a message: the first whose word it contains
RuleOf(message) ==
  CASE includes(message, <<"T","i","m","e","o","u","t">>) -> "timeout"
    [] ~includes(message, <<"T","i","m","e","o","u","t">>) /\ includes(message, <<"l","o","c","a","t","o","r">>) -> "locator"
    [] /\ ~includes(message, <<"T","i","m","e","o","u","t">>) /\ ~includes(message, <<"l","o","c","a","t","o","r">>)
       /\ includes(message, <<"e","x","p","e","c","t">>) -> "assertion"
    [] OTHER -> "fallback"

\* C27, amended: extractPattern picks the first applicable rule in the
\* order timeout, locator, assertion, fallback, a rule being applicable when
\* the message contains its word (Timeout, locator, expect): the timeout
\* rule yields "Timeout <N>ms" for a message with a timeout phrase and
\* duration and "Timeout" otherwise; the locator rule yields
\* "Locator: <literal>" for a message with a quoted locator literal and
\* "Locator not found" otherwise; the assertion rule yields
\* "Assertion failed: <expr>" for a message with an expect(...) expression
\* and "Assertion failed" otherwise; the fallback pattern is the first line
\* of the message cut to at most 100 characters.
C27_RulesByWord ==
  ret.op = "analyzeFailures" =>
    CASE RuleOf(AnalyzedMessage) = "timeout" ->
           FoundPattern =
             IF matchTimeout(AnalyzedMessage) # Undefined
             THEN <<"T","i","m","e","o","u","t"," ">> \o matchTimeout(AnalyzedMessage)[1] \o <<"m","s">>
             ELSE <<"T","i","m","e","o","u","t">>
      [] RuleOf(AnalyzedMessage) = "locator" ->
           FoundPattern =
             IF matchLocator(AnalyzedMessage) # Undefined
             THEN <<"L","o","c","a","t","o","r",":"," ">> \o matchLocator(AnalyzedMessage)[1]
             ELSE <<"L","o","c","a","t","o","r"," ","n","o","t"," ","f","o","u","n","d">>
      [] RuleOf(AnalyzedMessage) = "assertion" ->
           FoundPattern =
             IF matchExpect(AnalyzedMessage) # Undefined
             THEN <<"A","s","s","e","r","t","i","o","n"," ","f","a","i","l","e","d",":"," ">> \o matchExpect(AnalyzedMessage)[1]
             ELSE <<"A","s","s","e","r","t","i","o","n"," ","f","a","i","l","e","d">>
      [] RuleOf(AnalyzedMessage) = "fallback" -> FirstLineCut

\* a message that says Timeout without a duration and holds a quoted
\* locator literal yields "Timeout"
C27_Witness ==
  /\ ret.op = "analyzeFailures"
  /\ AnalyzedMessage = <<"T","i","m","e","o","u","t"," ","l","o","c","a","t","o","r","(","'","#","a","'",")"," ">>
  /\ FoundPattern = <<"T","i","m","e","o","u","t">>

----------------------------------------------------------------------------
(* Specification SpecMarkup: a collector constructed for a browser and an   *)
(* environment records up to MaxMarkupResults results whose names and       *)
(* messages hold characters of the markup; the HTML document is built of    *)
(* its metrics, its results and the patterns of its failed results.         *)

MaxMarkupResults == 2

MarkupNames == { <<"a">>, <<"<","b",">">>, <<"a","&","b">> }

MarkupMessages == { <<"x">>, <<"e","x","p","e","c","t","(","<","i",">",")">>, <<"i","t","'","s"," ","\"","y","\"">> }

\* the results offered to recordTest
MarkupPool ==
  { TestResult(name, "passed", 1000, 0, Some(1000), Undefined, 0) : name \in MarkupNames }
  \cup { TestResult(name, "failed", 2000, 0, Some(2000),
                    Some(TestError(<<"E","r","r","o","r">>, message, Undefined)), 0) :
           name \in MarkupNames, message \in MarkupMessages }

\* new TestMetricsCollector(browser, environment)
InitMarkup ==
  /\ now = 0
  /\ \E browser \in {<<"c","h","r","o","m","i","u","m">>, <<"x","&","y">>}, environment \in {<<"d","e","v">>, <<"<","q","a",">">>} :
       metrics = newMetrics(0, browser, environment)
  /\ testResults = <<>>
  /\ failures = <<>>
  /\ ret = [op |-> "new", val |-> Undefined]
  /\ failedTests = <<>>
  /\ reporter = Undefined
  /\ disk = Undefined
  /\ held = Undefined
  /\ retrying = Undefined

RecordMarkupTest ==
  /\ Len(testResults) < MaxMarkupResults
  /\ \E result \in MarkupPool : Becomes(recordTest(self, result, now))
  /\ Called("recordTest", Undefined)
  /\ UNCHANGED <<now, failedTests, reporter, disk, held, retrying>>

\* generateReport(getMetrics(), getTestResults(),
\*                new FailureAnalyzer(getFailedTests()).analyzeFailures(), path)
GenerateReport ==
  /\ Called("generateReport",
            Some(buildHTML(getMetrics(self), getTestResults(self),
                           analyzeFailures(getFailedTests(self)))))
  /\ UNCHANGED <<metrics, testResults, failures, now, failedTests, reporter, disk, held, retrying>>

NextMarkup ==
  \/ RecordMarkupTest
  \/ GenerateReport

SpecMarkup == InitMarkup /\ [][NextMarkup]_vars

\* what is to be written for a character of a text
Entity(c) ==
  CASE c = "&" -> <<"&","a","m","p",";">>
    [] c = "<" -> <<"&","l","t",";">>
    [] c = ">" -> <<"&","g","t",";">>
    [] c = "\"" -> <<"&","q","u","o","t",";">>
    [] c = "'" -> <<"&","#","0","3","9",";">>
    [] OTHER -> <<c>>

\* a text with each of its characters escaped
EscapedText(text) ==
  LET out[i \in 0..Len(text)] == IF i = 0 THEN <<>> ELSE out[i - 1] \o Entity(text[i])
  IN out[Len(text)]

\* C28: every text of the run in the document (fullName, error message,
\* failure pattern, suggested fix, chart label, environment, browser) is
\* written with & < > " ' escaped; the suggested fixes, which hold none of
\* these characters, are written as they are, and a chart label stands
\* between the double quotes of its string in the script.
C28_InterpolatedTextEscaped ==
  ret.op = "generateReport" =>
    \A i \in 1..Len(ret.val[1]) :
      CASE ret.val[1][i].site = "suggestedFix" ->
             ret.val[1][i].placed = ret.val[1][i].source
        [] ret.val[1][i].site = "chart label" ->
             ret.val[1][i].placed
               = <<"\"">> \o EscapedText(ret.val[1][i].source) \o <<"\"">>
        [] OTHER -> ret.val[1][i].placed = EscapedText(ret.val[1][i].source)

----------------------------------------------------------------------------
(* RetryHelper *)

\* MAX_RETRIES and RETRY_DELAY of app-config, the environment not set
MAX_RETRIES == 3

RETRY_DELAY == 1000

\* an entry of the record of what a retry call did: the operation invoked
\* or settled, onRetry called, a wait or the screenshot begun; with the
\* attempt number and the error, value or delay it is about
RetryEvent(ev, attempt, info) == [ev |-> ev, attempt |-> attempt, info |-> info]

\* RetryOptions: each member given or not
RetryOptions(maxRetries, backoffMultiplier, takeScreenshot, onRetry) ==
  [maxRetries |-> maxRetries, retryDelay |-> Undefined,
   backoffMultiplier |-> backoffMultiplier, takeScreenshot |-> takeScreenshot,
   onRetry |-> onRetry]

\* x = default for a member of the options
orDefault(x, default) == IF x = Undefined THEN default ELSE x[1]

\* a settled promise: fulfilled with a value or rejected with an error
Returned(value) == [kind |-> "returned", value |-> value]

Thrown(error) == [kind |-> "thrown", value |-> error]

Pending == [kind |-> "pending", value |-> ""]

\* the error the timer of withTimeout rejects with
TimeoutError == "Operation timed out"

\* the promise of the retry call settles; Promise.race settles with it if
\* it has not settled before
settle(st, outcome) ==
  [st EXCEPT !.pc = "settled", !.outcome = Some(outcome),
             !.race = IF @ = Some(Pending) THEN Some(outcome) ELSE @]

\* the body of the loop up to await operation()
invoke(st) ==
  [st EXCEPT !.pc = "operation",
             !.log = Append(@, RetryEvent("operation", st.attempt, Undefined))]

\* retry(operation, options) up to its first await; race is the promise of
\* withTimeout if the call is made by it
retry(options, timer, race) ==
  invoke([maxRetries |-> orDefault(options.maxRetries, MAX_RETRIES),
          backoffMultiplier |-> orDefault(options.backoffMultiplier, Rat(1, 1)),
          takeScreenshot |-> orDefault(options.takeScreenshot, FALSE),
          onRetry |-> options.onRetry,
          currentDelay |-> orDefault(options.retryDelay, RETRY_DELAY),
          attempt |-> 0, lastError |-> Undefined,
          pc |-> "start", log |-> <<>>, outcome |-> Undefined,
          timer |-> timer, race |-> race])

\* withTimeout(operation, timeout, options): the retry call and the timer
\* in a Promise.race
withTimeout(options) == retry(options, "armed", Some(Pending))

\* await operation() returned: return result
operationResolved(st, value) ==
  settle([st EXCEPT !.log = Append(@, RetryEvent("resolved", st.attempt, value))],
         Returned(value))

\* the code after the loop: the warning, the screenshot if asked for, throw
afterLoop(st) ==
  IF st.takeScreenshot
  THEN [st EXCEPT !.pc = "takeErrorScreenshot",
                  !.log = Append(@, RetryEvent("takeErrorScreenshot", st.attempt, Undefined))]
  ELSE settle(st, Thrown(st.lastError[1]))

\* await this.page.waitForTimeout(currentDelay) begins
waitForTimeout(st) ==
  [st EXCEPT !.pc = "waitForTimeout",
             !.log = Append(@, RetryEvent("waitForTimeout", st.attempt, st.currentDelay))]

\* the catch block keeping the first error instead of the last
operationRejected_FirstError(st, error) ==
  LET s1 == [st EXCEPT !.lastError = IF @ = Undefined THEN Some(error) ELSE @,
                       !.log = Append(@, RetryEvent("rejected", st.attempt, error))]
      s2 == [s1 EXCEPT !.log = Append(@, RetryEvent("onRetry", st.attempt + 1, error))]
  IN IF st.attempt < st.maxRetries
     THEN IF st.onRetry = Undefined THEN waitForTimeout(s1)
          ELSE IF st.onRetry[1] = "throws" THEN settle(s2, Thrown("CallbackError"))
          ELSE waitForTimeout(s2)
     ELSE afterLoop([s1 EXCEPT !.attempt = @ + 1])

\* await operation() threw: the catch block up to its await, or, after the
\* last attempt, the code after the loop
operationRejected(st, error) ==
  LET s1 == [st EXCEPT !.lastError = Some(error),
                       !.log = Append(@, RetryEvent("rejected", st.attempt, error))]
      s2 == [s1 EXCEPT !.log = Append(@, RetryEvent("onRetry", st.attempt + 1, error))]
  IN IF st.attempt < st.maxRetries
     THEN IF st.onRetry = Undefined THEN waitForTimeout(s1)
          ELSE IF st.onRetry[1] = "throws" THEN settle(s2, Thrown("CallbackError"))
          ELSE waitForTimeout(s2)
     ELSE afterLoop([s1 EXCEPT !.attempt = @ + 1])

\* the wait is over: the backoff, attempt++ and the next turn of the loop
waitElapsed(st) ==
  invoke([st EXCEPT !.currentDelay = (@ * st.backoffMultiplier.num) \div st.backoffMultiplier.den,
                    !.attempt = @ + 1])

\* takeErrorScreenshot returned (it catches what the screenshot throws):
\* throw lastError
screenshotTaken(st) == settle(st, Thrown(st.lastError[1]))

\* the timer of withTimeout runs out: reject, which settles the race if it
\* has not settled before
timerFired(st) ==
  [st EXCEPT !.timer = "fired",
             !.race = IF @ = Some(Pending) THEN Some(Thrown(TimeoutError)) ELSE @]

----------------------------------------------------------------------------
(* Specification SpecRetry: one call of retry or of withTimeout with any    *)
(* options, maxRetries being left out or 0..MaxRetriesOption; each          *)
(* invocation of the operation returns a value or throws an error; the      *)
(* timer of withTimeout runs out at any moment.                             *)

MaxRetriesOption == 1

OperationErrors == {"E1", "E2"}

OperationValues == {"v1", "v2"}

\* the options a call is made with
OptionsPool ==
  { RetryOptions(maxRetries, backoffMultiplier, takeScreenshot, onRetry) :
      maxRetries \in {Undefined} \cup {Some(m) : m \in 0..MaxRetriesOption},
      backoffMultiplier \in {Undefined, Some(Rat(3, 2))},
      takeScreenshot \in {Undefined, Some(TRUE)},
      onRetry \in {Undefined, Some("returns"), Some("throws")} }

\* what the steps of a retry call leave alone
OnlyRetrying ==
  UNCHANGED <<metrics, testResults, failures, now, failedTests, reporter, disk, held>>

\* retry(operation, options)
Retry ==
  /\ retrying = Undefined
  /\ \E options \in OptionsPool : retrying' = Some(retry(options, "none", Undefined))
  /\ Called("retry", Undefined)
  /\ OnlyRetrying

\* withTimeout(operation, timeout, options)
WithTimeout ==
  /\ retrying = Undefined
  /\ \E options \in OptionsPool : retrying' = Some(withTimeout(options))
  /\ Called("withTimeout", Undefined)
  /\ OnlyRetrying

OperationResolves ==
  /\ retrying # Undefined
  /\ retrying[1].pc = "operation"
  /\ \E value \in OperationValues : retrying' = Some(operationResolved(retrying[1], value))
  /\ UNCHANGED ret
  /\ OnlyRetrying

OperationRejects ==
  /\ retrying # Undefined
  /\ retrying[1].pc = "operation"
  /\ \E error \in OperationErrors : retrying' = Some(operationRejected(retrying[1], error))
  /\ UNCHANGED ret
  /\ OnlyRetrying

WaitElapses ==
  /\ retrying # Undefined
  /\ retrying[1].pc = "waitForTimeout"
  /\ retrying' = Some(waitElapsed(retrying[1]))
  /\ UNCHANGED ret
  /\ OnlyRetrying

ScreenshotTaken ==
  /\ retrying # Undefined
  /\ retrying[1].pc = "takeErrorScreenshot"
  /\ retrying' = Some(screenshotTaken(retrying[1]))
  /\ UNCHANGED ret
  /\ OnlyRetrying

TimerFires ==
  /\ retrying # Undefined
  /\ retrying[1].timer = "armed"
  /\ retrying' = Some(timerFired(retrying[1]))
  /\ UNCHANGED ret
  /\ OnlyRetrying

NextRetry ==
  \/ Retry
  \/ WithTimeout
  \/ OperationResolves
  \/ OperationRejects
  \/ WaitElapses
  \/ ScreenshotTaken
  \/ TimerFires

SpecRetry == Init /\ [][NextRetry]_vars

\* the positions of the events ev in a record of events
EventsAt(log, ev) == {i \in 1..Len(log) : log[i].ev = ev}

\* the position of the j-th event ev
NthAt(log, ev, j) ==
  CHOOSE i \in EventsAt(log, ev) :
    Cardinality({h \in EventsAt(log, ev) : h <= i}) = j

\* C29: a retry call with maxRetries = m invokes the operation at most
\* m + 1 times, attempt after attempt; an invocation that succeeds is the
\* last thing the call does and its value is what the call returns; once
\* m + 1 invocations have failed the call invokes nothing more and throws
\* the error of the last of them; onRetry, if given, is called directly
\* after each of the first m failed invocations, the j-th time with
\* attempt j and the error of the j-th failure, and never after the
\* (m + 1)-th; between two invocations there is a wait.
C29_RetryInvocations ==
  retrying # Undefined =>
    LET st == retrying[1]
        log == st.log
        m == st.maxRetries
        invoked == EventsAt(log, "operation")
        failed == EventsAt(log, "rejected")
        called == EventsAt(log, "onRetry")
    IN /\ Cardinality(invoked) <= m + 1
       /\ \A j \in 1..Cardinality(invoked) : log[NthAt(log, "operation", j)].attempt = j - 1
       /\ \A i \in EventsAt(log, "resolved") :
            /\ i = Len(log)
            /\ st.outcome = Some(Returned(log[i].info))
       /\ (st.outcome # Undefined /\ st.outcome[1].kind = "returned")
            => log[Len(log)].ev = "resolved"
       /\ Cardinality(failed) = m + 1 =>
            /\ st.pc \in {"takeErrorScreenshot", "settled"}
            /\ st.pc = "settled" =>
                 st.outcome = Some(Thrown(log[NthAt(log, "rejected", m + 1)].info))
       /\ (st.outcome # Undefined /\ st.outcome[1].kind = "thrown"
             /\ Cardinality(failed) < m + 1)
            => st.onRetry = Some("throws")
       /\ Cardinality(called) =
            IF st.onRetry = Undefined THEN 0 ELSE Min(Cardinality(failed), m)
       /\ \A j \in 1..Cardinality(called) :
            LET i == NthAt(log, "onRetry", j)
            IN /\ log[i].attempt = j
               /\ i - 1 = NthAt(log, "rejected", j)
               /\ log[i].info = log[i - 1].info
       /\ \A i, j \in invoked :
            i < j => \E k \in EventsAt(log, "waitForTimeout") : i < k /\ k < j

\* a call with the default of 3 retries and an onRetry, whose four
\* invocations failed with E1, E1, E1 and E2, has thrown E2
C29_Witness ==
  /\ retrying # Undefined
  /\ retrying[1].maxRetries = 3
  /\ retrying[1].onRetry = Some("returns")
  /\ Cardinality(EventsAt(retrying[1].log, "rejected")) = 4
  /\ Cardinality(EventsAt(retrying[1].log, "onRetry")) = 3
  /\ retrying[1].log[NthAt(retrying[1].log, "rejected", 1)].info = "E1"
  /\ retrying[1].outcome = Some(Thrown("E2"))

\* C30: when the timer of withTimeout runs out before the retry call has
\* settled, withTimeout rejects with the timeout error, and once it has
\* done so the operation is not invoked again.
C30_TimeoutStopsRetry ==
  [][/\ (retrying # Undefined /\ retrying[1].race = Some(Pending)
           /\ retrying'[1].timer # retrying[1].timer)
          => retrying'[1].race = Some(Thrown(TimeoutError))
     /\ (retrying # Undefined /\ retrying[1].race = Some(Thrown(TimeoutError)))
          => EventsAt(retrying'[1].log, "operation") = EventsAt(retrying[1].log, "operation")]_vars

====
